---------------------------- MODULE Spec2Model ----------------------------
(***************************************************************************)
(* Jan-Sunwai-AI: the civic classification pipeline                        *)
(* (backend/app/classifier.py, rule_engine.py, category_utils.py), the     *)
(* authority registry, routing and escalation (backend/app/authorities.py, *)
(* routers/complaints.py).                                                 *)
(*                                                                         *)
(* Units.  Python floats are modelled as integers:                         *)
(*   - rule weights and scores in tenths        (3.0 -> 30, 0.3 -> 3);     *)
(*   - confidences in ten-thousandths           (0.85 -> 8500, 1.0 -> 10000)*)
(* so that halving a 3-decimal confidence stays exact.                     *)
(*                                                                         *)
(* Text is modelled by TLA+ strings; Python's `kw in text` is substring    *)
(* containment on characters and is computed as such (Contains).           *)
(***************************************************************************)
EXTENDS Integers, Sequences, FiniteSets, TLC

VARIABLES
    \* ---- one run of CivicClassifier.classify ----
    pc,               \* position of the run inside classify()
    image,            \* the argument image_path: what the caller handed in
    settings,         \* app.config.settings, as read by classify()
    vision_payload,   \* dict built from the vision response (lines 169-181)
    description,      \* str(vision_payload.get("description", ""))
    rule_result,      \* what classify_by_rules returned (line 188)
    canonical,        \* local `canonical`
    model_confidence, \* local `model_confidence`
    method,           \* local `method`
    vision,           \* how the vision call ended: "raised", or the kind of its response
    reasoning,        \* how step 3 ended: "skipped", "raised" (the call raised),
                      \* "bad_shape" (JSON, but no object), "parse_failed", "parsed"
    reasoned,         \* reasoning_canonical and reasoning_conf of step 3
    decision,         \* the dict classify() returned, once it has returned
    propagated,       \* text of an exception that left classify(), "" if none
    \* ---- one complaint document and the escalate requests on it ----
    complaint,        \* the stored document (db["complaints"])
    routing,          \* the dict route_authority returned at creation
    req,              \* per request: position, values read, HTTP outcome
    \* ---- canonicalize_label applied to a raw label, and to its own result ----
    raw_label,        \* the raw label
    label_parts,      \* number of pieces the raw label was put together from
    label_pc,         \* "input", "once" (canonicalized), "twice" (and again)
    once,             \* canonicalize_label(label)
    twice,            \* canonicalize_label(once)
    \* ---- classify_by_rules applied to a vision signal, and its routing ----
    signal,           \* the signal: description, hazards, number of pieces
    engine_pc,        \* "input", "classified", "routed"
    engine_result,    \* what classify_by_rules returned
    engine_routing,   \* route_authority(engine_result.category)
    \* ---- LLMQueueService ----
    queue,            \* self.queue: the job ids waiting, oldest first
    results,          \* self.results: job id -> entry ("absent": no entry)
    workers,          \* per worker slot of self._workers: state and current job
    jobs,             \* per job id: how its generation will go
    taken,            \* job ids in the order workers took them
    \* ---- schemas ----
    schema_call,      \* the keyword arguments of the latest construction
    schema_result     \* its validation errors and the object it built

clsVars == <<pc, image, settings, vision_payload, description, rule_result,
             canonical, model_confidence, method, vision, reasoning, reasoned,
             decision, propagated>>
cmpVars == <<complaint, routing, req>>
labVars == <<raw_label, label_parts, label_pc, once, twice>>
engVars == <<signal, engine_pc, engine_result, engine_routing>>
qVars == <<queue, results, workers, jobs, taken>>
schVars == <<schema_call, schema_result>>
auxVars == <<labVars, engVars, qVars, schVars>>
labOthers == <<clsVars, cmpVars, engVars, qVars, schVars>>
engOthers == <<clsVars, cmpVars, labVars, qVars, schVars>>
qOthers == <<clsVars, cmpVars, labVars, engVars, schVars>>
schOthers == <<clsVars, cmpVars, labVars, engVars, qVars>>
vars == <<clsVars, cmpVars, auxVars>>

-----------------------------------------------------------------------------
(* Strings                                                                 *)

UpperChars == "ABCDEFGHIJKLMNOPQRSTUVWXYZ"
LowerChars == "abcdefghijklmnopqrstuvwxyz"

\* one character of str.lower()
LowerChar(c) ==
    IF \E i \in 1..Len(UpperChars) : SubSeq(UpperChars, i, i) = c
    THEN LET i == CHOOSE j \in 1..Len(UpperChars) : SubSeq(UpperChars, j, j) = c
         IN  SubSeq(LowerChars, i, i)
    ELSE c

RECURSIVE Lower(_)
\* str.lower()
Lower(s) ==
    IF Len(s) = 0 THEN ""
    ELSE LowerChar(SubSeq(s, 1, 1)) \o Lower(SubSeq(s, 2, Len(s)))

\* Python's `kw in s` on strings: substring containment ("" is in every string)
Contains(s, kw) ==
    \E i \in 1..(Len(s) - Len(kw) + 1) : SubSeq(s, i, i + Len(kw) - 1) = kw

\* any(kw in s for kw in keywords)
AnyIn(s, keywords) == \E kw \in keywords : Contains(s, kw)

IsSpace(c) == c \in {" ", "\t", "\n", "\r"}

RECURSIVE LStrip(_)
LStrip(s) ==
    IF Len(s) > 0 /\ IsSpace(SubSeq(s, 1, 1)) THEN LStrip(SubSeq(s, 2, Len(s))) ELSE s

RECURSIVE RStrip(_)
RStrip(s) ==
    IF Len(s) > 0 /\ IsSpace(SubSeq(s, Len(s), Len(s)))
    THEN RStrip(SubSeq(s, 1, Len(s) - 1)) ELSE s

\* str.strip()
Strip(s) == RStrip(LStrip(s))

RECURSIVE ReplaceUnderscore(_)
\* str.replace("_", " ")
ReplaceUnderscore(s) ==
    IF Len(s) = 0 THEN ""
    ELSE (IF SubSeq(s, 1, 1) = "_" THEN " " ELSE SubSeq(s, 1, 1))
         \o ReplaceUnderscore(SubSeq(s, 2, Len(s)))

RECURSIVE CollapseSpaces(_)
\* re.sub(r"\s+", " ", s): every run of whitespace becomes one space
CollapseSpaces(s) ==
    IF Len(s) = 0 THEN ""
    ELSE IF IsSpace(SubSeq(s, 1, 1))
         THEN " " \o CollapseSpaces(LStrip(s))
         ELSE SubSeq(s, 1, 1) \o CollapseSpaces(SubSeq(s, 2, Len(s)))

-----------------------------------------------------------------------------
(* category_utils.py                                                       *)

CANONICAL_CATEGORIES ==
    << "Municipal - PWD (Roads)",
       "Municipal - Sanitation",
       "Municipal - Horticulture",
       "Municipal - Street Lighting",
       "Municipal - Water & Sewerage",
       "Utility - Power (DISCOM)",
       "State Transport",
       "Pollution Control Board",
       "Police - Local Law Enforcement",
       "Police - Traffic",
       "Uncategorized" >>

CanonicalSet == {CANONICAL_CATEGORIES[i] : i \in 1..Len(CANONICAL_CATEGORIES)}

\* the dict, in insertion order: <<alias, canonical>>
ALIAS_TO_CANONICAL ==
    << <<"municipal - pwd (roads)",        "Municipal - PWD (Roads)">>,
       <<"municipal - pwd roads",          "Municipal - PWD (Roads)">>,
       <<"municipal - pwd (bridges)",      "Municipal - PWD (Roads)">>,
       <<"municipal - sanitation",         "Municipal - Sanitation">>,
       <<"municipal - horticulture",       "Municipal - Horticulture">>,
       <<"municipal - street lighting",    "Municipal - Street Lighting">>,
       <<"municipal - water & sewerage",   "Municipal - Water & Sewerage">>,
       <<"municipal - water and sewerage", "Municipal - Water & Sewerage">>,
       <<"utility - power (discom)",       "Utility - Power (DISCOM)">>,
       <<"state transport",                "State Transport">>,
       <<"pollution control board",        "Pollution Control Board">>,
       <<"police - local law enforcement", "Police - Local Law Enforcement">>,
       <<"police - traffic",               "Police - Traffic">>,
       <<"uncategorized",                  "Uncategorized">> >>

\* _normalize without the lower-casing
Normalize_keep_case(text) == CollapseSpaces(ReplaceUnderscore(Strip(text)))

\* _normalize: strip, lower, "_" -> " ", collapse whitespace (in that order)
Normalize(text) == CollapseSpaces(ReplaceUnderscore(Lower(Strip(text))))

\* canonicalize_label with its last line changed: a label that matches no alias
\* is returned as it came instead of being mapped to "Uncategorized"
canonicalize_label_passthrough(label) ==
    LET cleaned == Normalize(label)
        n       == Len(ALIAS_TO_CANONICAL)
        partial == {i \in 1..n : \/ ALIAS_TO_CANONICAL[i][1] = cleaned
                                 \/ Contains(ALIAS_TO_CANONICAL[i][1], cleaned)
                                 \/ Contains(cleaned, ALIAS_TO_CANONICAL[i][1])}
    IN  IF partial = {} THEN label ELSE "Uncategorized"

canonicalize_label(label) ==
    LET cleaned == Normalize(label)
        n       == Len(ALIAS_TO_CANONICAL)
        exact   == {i \in 1..n : ALIAS_TO_CANONICAL[i][1] = cleaned}
        partial == {i \in 1..n : \/ Contains(ALIAS_TO_CANONICAL[i][1], cleaned)
                                 \/ Contains(cleaned, ALIAS_TO_CANONICAL[i][1])}
        First(S) == CHOOSE i \in S : \A j \in S : i <= j
    IN  IF exact # {} THEN ALIAS_TO_CANONICAL[First(exact)][2]
        ELSE IF partial # {} THEN ALIAS_TO_CANONICAL[First(partial)][2]
        ELSE "Uncategorized"

-----------------------------------------------------------------------------
(* JSON values as json.loads returns them.                                 *)
(*   t: "absent" (key missing), "str", "list", "null", "num"               *)
(*   s: the text of a str (or the repr of a num);  l: the items of a list, *)
(*   each [t |-> "str" or "num", s |-> text]                               *)

JAbsent    == [t |-> "absent", s |-> "", l |-> <<>>]
JNull      == [t |-> "null",   s |-> "", l |-> <<>>]
JStr(x)    == [t |-> "str",    s |-> x,  l |-> <<>>]
JNum(x)    == [t |-> "num",    s |-> x,  l |-> <<>>]
JList(xs)  == [t |-> "list",   s |-> "", l |-> xs]
JStrList(strs) == JList([i \in 1..Len(strs) |-> [t |-> "str", s |-> strs[i]]])

RECURSIVE JoinWith(_, _)
\* sep.join(strs) for a sequence of strings
JoinWith(sep, strs) ==
    IF Len(strs) = 0 THEN ""
    ELSE IF Len(strs) = 1 THEN strs[1]
    ELSE strs[1] \o sep \o JoinWith(sep, Tail(strs))

\* the characters of a string, as a sequence of one-character strings
Chars(s) == [i \in 1..Len(s) |-> SubSeq(s, i, i)]

\* " ".join(v) raises TypeError unless v is a str or a list of str
JoinRaises(v) ==
    \/ v.t \in {"null", "num"}
    \/ v.t = "list" /\ \E i \in 1..Len(v.l) : v.l[i].t # "str"

\* " ".join(v) where it does not raise; a str is iterated character by character
JoinSpace(v) ==
    IF v.t = "str" THEN JoinWith(" ", Chars(v.s))
    ELSE JoinWith(" ", [i \in 1..Len(v.l) |-> v.l[i].s])

\* str(v)
PyStr(v) ==
    CASE v.t = "str"  -> v.s
      [] v.t = "null" -> "None"
      [] v.t = "num"  -> v.s
      [] v.t = "list" ->
            "[" \o JoinWith(", ", [i \in 1..Len(v.l) |->
                     IF v.l[i].t = "str" THEN "'" \o v.l[i].s \o "'" ELSE v.l[i].s])
                \o "]"
      [] OTHER -> ""

\* dict.get(key, default) on a payload (a function from keys to JSON values)
Get(payload, key, default) ==
    IF payload[key].t = "absent" THEN default ELSE payload[key]

-----------------------------------------------------------------------------
(* rule_engine.py                                                          *)

Rule(keywords, weight) == [keywords |-> keywords, weight |-> weight]

\* the dict, in insertion order; weights in tenths
CATEGORY_RULES ==
    << [category |-> "Municipal - PWD (Roads)", rules |-> <<
          Rule({"pothole", "potholes"}, 30),
          Rule({"road damage", "damaged road", "broken road", "cracked road"}, 30),
          Rule({"damaged pavement", "broken pavement", "cracked pavement"}, 25),
          Rule({"footpath damage", "broken footpath", "damaged footpath"}, 25),
          Rule({"manhole", "manhole cover"}, 20),
          Rule({"road crack", "road surface"}, 20),
          Rule({"bridge damage", "damaged bridge"}, 20),
          Rule({"asphalt", "tar road", "concrete road"}, 10),
          Rule({"road", "street", "highway", "lane"}, 3) >>],
       [category |-> "Municipal - Sanitation", rules |-> <<
          Rule({"garbage", "trash", "rubbish", "refuse"}, 30),
          Rule({"waste pile", "waste dump", "waste heap"}, 30),
          Rule({"overflowing bin", "overflowing trash", "overflowing garbage"}, 30),
          Rule({"litter", "littered", "littering"}, 25),
          Rule({"dump", "dumped", "dumping"}, 20),
          Rule({"dirty toilet", "filthy toilet", "unclean toilet"}, 25),
          Rule({"debris", "scattered waste"}, 15),
          Rule({"stench", "foul smell", "unhygienic"}, 10) >>],
       [category |-> "Municipal - Horticulture", rules |-> <<
          Rule({"fallen tree", "uprooted tree", "collapsed tree"}, 30),
          Rule({"overgrown", "unmaintained park", "neglected park"}, 25),
          Rule({"dead plant", "dead plants", "dry plants", "withered"}, 25),
          Rule({"broken branch", "tree branch", "branches blocking"}, 20),
          Rule({"tree blocking road", "tree fell", "tree on road"}, 30),
          Rule({"garden", "park", "greenery", "vegetation"}, 5) >>],
       [category |-> "Municipal - Street Lighting", rules |-> <<
          Rule({"street light", "streetlight", "street lamp"}, 30),
          Rule({"lamp post", "lamppost", "light pole"}, 30),
          Rule({"broken light", "non-functional light", "damaged light"}, 25),
          Rule({"unlit road", "dark road", "dark street", "no lighting"}, 25),
          Rule({"bulb", "illumination"}, 5) >>],
       [category |-> "Municipal - Water & Sewerage", rules |-> <<
          Rule({"waterlogging", "waterlogged", "water logging"}, 30),
          Rule({"flooded", "flooding", "flood"}, 30),
          Rule({"drain overflow", "overflowing drain", "blocked drain"}, 30),
          Rule({"sewer overflow", "sewer leak", "sewage"}, 30),
          Rule({"pipe leak", "water leak", "leaking pipe", "burst pipe"}, 25),
          Rule({"stagnant water", "standing water", "water pooling"}, 25),
          Rule({"drainage problem", "drainage issue", "clogged drain"}, 20),
          Rule({"water gushing", "water spraying"}, 20) >>],
       [category |-> "Utility - Power (DISCOM)", rules |-> <<
          Rule({"dangling wire", "hanging wire", "loose wire", "fallen wire"}, 30),
          Rule({"open transformer", "damaged transformer", "leaking transformer"}, 30),
          Rule({"fallen electric pole", "tilted pole", "broken pole"}, 30),
          Rule({"exposed wire", "bare wire", "naked cable"}, 25),
          Rule({"power cable", "electric cable", "power line"}, 20),
          Rule({"sparking", "electrical hazard", "electrocution risk"}, 25),
          Rule({"transformer", "electric pole", "utility pole"}, 15) >>],
       [category |-> "Pollution Control Board", rules |-> <<
          Rule({"air pollution", "smoke emission", "thick smoke"}, 30),
          Rule({"industrial waste", "factory waste", "effluent"}, 30),
          Rule({"open burning", "burning garbage", "burning waste"}, 30),
          Rule({"chemical dump", "toxic waste", "hazardous waste"}, 30),
          Rule({"pollution", "polluted", "contaminated"}, 20),
          Rule({"smoke", "smog", "haze"}, 15) >>],
       [category |-> "Police - Traffic", rules |-> <<
          Rule({"traffic signal", "signal failure", "broken signal"}, 30),
          Rule({"traffic jam", "traffic congestion", "gridlock"}, 25),
          Rule({"road blockage", "road blocked", "road obstruction"}, 25),
          Rule({"traffic"}, 5) >>],
       [category |-> "Police - Local Law Enforcement", rules |-> <<
          Rule({"illegal parking", "wrong parking", "no parking zone"}, 30),
          Rule({"encroachment", "footpath encroachment", "pavement encroachment"}, 30),
          Rule({"public nuisance", "disturbance", "rowdy"}, 25),
          Rule({"footpath blocked", "path blocked", "walkway blocked"}, 20),
          Rule({"unauthorized", "illegal occupation", "hawker"}, 15) >>],
       [category |-> "State Transport", rules |-> <<
          Rule({"bus shelter", "bus stop", "damaged bus stop"}, 30),
          Rule({"state bus", "broken bus", "damaged bus"}, 30),
          Rule({"transport terminal", "bus terminal", "bus depot"}, 25) >>] >>

NON_CIVIC_KEYWORDS ==
    { "selfie", "portrait", "food", "meal", "restaurant", "cartoon", "anime",
      "gaming", "screenshot", "indoor furniture", "appliance", "pet", "animal",
      "beautiful landscape", "clear sky", "family photo", "group photo" }

RECURSIVE SumWeights(_, _, _)
RECURSIVE SumWeightsPerOccurrence(_, _, _)
\* the loop of _score_text from rule i on
SumWeights(text_lower, rules, i) ==
    IF i > Len(rules) THEN 0
    ELSE (IF AnyIn(text_lower, rules[i].keywords) THEN rules[i].weight ELSE 0)
         + SumWeights(text_lower, rules, i + 1)

\* the number of places of text_lower where a keyword of the set starts
Occurrences(text_lower, keywords) ==
    Cardinality({i \in 1..Len(text_lower) :
                    \E kw \in keywords :
                        /\ i + Len(kw) - 1 <= Len(text_lower)
                        /\ SubSeq(text_lower, i, i + Len(kw) - 1) = kw})

SumWeightsPerOccurrence(text_lower, rules, i) ==
    IF i > Len(rules) THEN 0
    ELSE rules[i].weight * Occurrences(text_lower, rules[i].keywords)
         + SumWeightsPerOccurrence(text_lower, rules, i + 1)

\* _score_text adding a rule's weight once for every occurrence of a keyword
score_text_per_occurrence(text, rules) == SumWeightsPerOccurrence(Lower(text), rules, 1)

\* _score_text with a `break` after the first rule that matches
score_text_first_hit(text, rules) ==
    LET hits == {i \in 1..Len(rules) : AnyIn(Lower(text), rules[i].keywords)}
    IN  IF hits = {} THEN 0
        ELSE rules[CHOOSE i \in hits : \A j \in hits : i <= j].weight

\* _score_text, in tenths
score_text(text, rules) == SumWeights(Lower(text), rules, 1)

\* round(num/den * 10000 / 10, 3) as ten-thousandths: num/den rounded to 3 decimals.
\* No score of the table gives a tie, so half-up and Python's rounding agree.
Round3(num, den) == ((2 * num * 1000 + den) \div (2 * den)) * 10

Min(a, b) == IF a <= b THEN a ELSE b
Max(a, b) == IF a >= b THEN a ELSE b

\* default arguments of classify_by_rules, in tenths
DefaultAmbiguityThreshold == 20
DefaultConfidenceGapThreshold == 10

PayloadKeys ==
    {"description", "visible_objects", "primary_issue", "secondary_issue",
     "hazards", "setting"}

\* line 159: f"{desc} {objects} {primary} {secondary} {hazards}"
CombinedText(payload) ==
    PyStr(Get(payload, "description", JStr(""))) \o " "
    \o JoinSpace(Get(payload, "visible_objects", JList(<<>>))) \o " "
    \o PyStr(Get(payload, "primary_issue", JStr(""))) \o " "
    \o PyStr(Get(payload, "secondary_issue", JStr(""))) \o " "
    \o JoinSpace(Get(payload, "hazards", JList(<<>>)))

\* lines 172-175: one score per category, in the order of the rule table
ScoreTable(combined) ==
    [i \in 1..Len(CATEGORY_RULES) |-> score_text(combined, CATEGORY_RULES[i].rules)]

\* ranked[0] with the sort ascending (the minus sign of the sort key dropped)
TopIndex_ascending(scores) ==
    CHOOSE i \in 1..Len(scores) :
        /\ \A j \in 1..Len(scores) : scores[j] >= scores[i]
        /\ \A j \in 1..(i - 1) : scores[j] > scores[i]

\* ranked[0] of the stable sort by descending score: the first maximum
TopIndex(scores) ==
    CHOOSE i \in 1..Len(scores) :
        /\ \A j \in 1..Len(scores) : scores[j] <= scores[i]
        /\ \A j \in 1..(i - 1) : scores[j] < scores[i]

\* ranked[-1][1] instead of ranked[1][1]: the lowest score
RunnerUpScore_last(scores) ==
    CHOOSE v \in {scores[j] : j \in 1..Len(scores)} :
        \A j \in 1..Len(scores) : v <= scores[j]

\* ranked[1][1]: the best score among the other categories
RunnerUpScore(scores) ==
    LET t == TopIndex(scores)
    IN  CHOOSE v \in {scores[j] : j \in 1..Len(scores) \ {t}} :
            \A j \in 1..Len(scores) \ {t} : scores[j] <= v

\* lines 163-170: the non-civic short-circuit
NonCivicResult ==
    [raised |-> FALSE, category |-> "Uncategorized", confidence |-> 8500,
     is_ambiguous |-> FALSE, scores |-> <<>>, method |-> "rule_engine_non_civic"]

\* the confidence without the reduction for a small gap
RuleConfidence_unreduced(top_score, gap, confidence_gap_threshold) ==
    IF top_score >= 60 THEN 10000 ELSE Round3(top_score, 60)

\* lines 195-200: score to confidence
RuleConfidence(top_score, gap, confidence_gap_threshold) ==
    IF gap < confidence_gap_threshold
    THEN (IF top_score >= 60 THEN 7000 ELSE Round3(7 * top_score, 600))
    ELSE (IF top_score >= 60 THEN 10000 ELSE Round3(top_score, 60))

\* lines 177-208: the decision from the score table
RankedResult(scores, ambiguity_threshold, confidence_gap_threshold) ==
    LET top       == TopIndex(scores)
        top_score == scores[top]
        gap       == top_score - RunnerUpScore(scores)
    IN  IF top_score <= 0
        THEN [raised |-> FALSE, category |-> "Uncategorized", confidence |-> 1000,
              is_ambiguous |-> TRUE, scores |-> scores,
              method |-> "rule_engine_no_match"]
        ELSE [raised |-> FALSE, category |-> CATEGORY_RULES[top].category,
              confidence |-> RuleConfidence(top_score, gap, confidence_gap_threshold),
              is_ambiguous |-> (top_score < ambiguity_threshold)
                               \/ (gap < confidence_gap_threshold),
              scores |-> scores, method |-> "rule_engine"]

\* classify_by_rules with the non-civic check moved behind the scoring: it is
\* consulted only when no civic rule matched
classify_by_rules_civic_first(payload, ambiguity_threshold, confidence_gap_threshold) ==
    IF \/ JoinRaises(Get(payload, "visible_objects", JList(<<>>)))
       \/ JoinRaises(Get(payload, "hazards", JList(<<>>)))
    THEN [raised |-> TRUE, category |-> "", confidence |-> 0, is_ambiguous |-> FALSE,
          scores |-> <<>>, method |-> "TypeError"]
    ELSE CHOOSE result \in
            { CHOOSE ranked \in
                 { IF /\ \A i \in 1..Len(scores) : scores[i] = 0
                      /\ AnyIn(Lower(combined), NON_CIVIC_KEYWORDS)
                   THEN NonCivicResult
                   ELSE RankedResult(scores, ambiguity_threshold, confidence_gap_threshold) :
                       scores \in {ScoreTable(combined)} } : TRUE
              : combined \in {CombinedText(payload)} } : TRUE

\* (the singleton sets make TLC compute the text and the score table once)
classify_by_rules(payload, ambiguity_threshold, confidence_gap_threshold) ==
    IF \/ JoinRaises(Get(payload, "visible_objects", JList(<<>>)))
       \/ JoinRaises(Get(payload, "hazards", JList(<<>>)))
    THEN [raised |-> TRUE, category |-> "", confidence |-> 0, is_ambiguous |-> FALSE,
          scores |-> <<>>, method |-> "TypeError"]
    ELSE CHOOSE result \in
            { IF AnyIn(Lower(combined), NON_CIVIC_KEYWORDS) THEN NonCivicResult
              ELSE CHOOSE ranked \in
                      { RankedResult(scores, ambiguity_threshold, confidence_gap_threshold) :
                            scores \in {ScoreTable(combined)} } : TRUE
              : combined \in {CombinedText(payload)} } : TRUE

\* parse_vision_text_to_payload ("setting" is not among its keys)
parse_vision_text_to_payload(text) ==
    [k \in PayloadKeys |->
        CASE k = "description"                  -> JStr(text)
          [] k \in {"visible_objects", "hazards"} -> JList(<<>>)
          [] k = "setting"                      -> JAbsent
          [] OTHER                              -> JStr("")]

-----------------------------------------------------------------------------
(* classifier.py                                                           *)

NEGATIVE_KEYWORDS ==
    { "selfie", "portrait", "food", "meal", "restaurant", "cartoon", "anime",
      "gaming", "screenshot", "indoor furniture", "appliance", "pet", "animal",
      "beautiful landscape", "clear sky" }

\* the list, most specific first: [keywords, category]
KEYWORD_FALLBACK ==
    << [keywords |-> {"pothole", "road damage", "cracked road", "broken road",
                      "damaged road", "damaged pavement", "broken pavement",
                      "footpath damage", "manhole"},
        category |-> "Municipal - PWD (Roads)"],
       [keywords |-> {"waterlog", "flooded", "flood", "drain overflow",
                      "sewer overflow", "pipe leak", "water gushing",
                      "stagnant water", "blocked drain", "drainage problem"},
        category |-> "Municipal - Water & Sewerage"],
       [keywords |-> {"garbage", "trash", "waste", "litter", "dump", "rubbish",
                      "overflowing bin"},
        category |-> "Municipal - Sanitation"],
       [keywords |-> {"fallen tree", "uprooted tree", "overgrown", "dead plant",
                      "broken branch", "tree blocking"},
        category |-> "Municipal - Horticulture"],
       [keywords |-> {"street light", "lamp post", "unlit road", "broken light",
                      "dark road"},
        category |-> "Municipal - Street Lighting"],
       [keywords |-> {"dangling wire", "hanging wire", "open transformer",
                      "fallen electric pole", "exposed wire", "power cable"},
        category |-> "Utility - Power (DISCOM)"],
       [keywords |-> {"smoke", "burning", "industrial waste", "air pollution",
                      "open burning"},
        category |-> "Pollution Control Board"],
       [keywords |-> {"traffic signal", "signal failure", "traffic jam",
                      "road blockage"},
        category |-> "Police - Traffic"],
       [keywords |-> {"illegal parking", "encroachment", "footpath blocked",
                      "public nuisance"},
        category |-> "Police - Local Law Enforcement"],
       [keywords |-> {"bus shelter", "state bus", "transport terminal"},
        category |-> "State Transport"] >>


\* _keyword_fallback that keeps scanning and returns the last rule that matches
keyword_fallback_last_hit(desc_text) ==
    LET desc == Lower(desc_text)
        hits == {i \in 1..Len(KEYWORD_FALLBACK) : AnyIn(desc, KEYWORD_FALLBACK[i].keywords)}
    IN  IF hits = {} THEN "Uncategorized"
        ELSE KEYWORD_FALLBACK[CHOOSE i \in hits : \A j \in hits : i >= j].category

\* _keyword_fallback: the first rule, in list order, with a keyword in the description
keyword_fallback(desc_text) ==
    LET desc == Lower(desc_text)
        hits == {i \in 1..Len(KEYWORD_FALLBACK) : AnyIn(desc, KEYWORD_FALLBACK[i].keywords)}
    IN  IF hits = {} THEN "Uncategorized"
        ELSE KEYWORD_FALLBACK[CHOOSE i \in hits : \A j \in hits : i <= j].category

\* a JSON object with the six keys of the vision schema (JAbsent: key missing)
Obj(desc, objects, primary, secondary, hazards, setting) ==
    [k \in PayloadKeys |->
        CASE k = "description"     -> desc
          [] k = "visible_objects" -> objects
          [] k = "primary_issue"   -> primary
          [] k = "secondary_issue" -> secondary
          [] k = "hazards"         -> hazards
          [] OTHER                 -> setting]

NoPayload == [k \in PayloadKeys |-> JAbsent]

\* What the caller hands to classify(image_path):
\*   a path with no file, a path of an image file, a path of a file PIL cannot
\*   open, or a PIL.Image object (routers/complaints.py:64, routes.py:43)
Images == {"missing_path", "image_file", "unreadable_file", "image_object"}

\* settings read by classify(): the defaults of config.py and their overrides
SettingsSet ==
    [reasoning_model : {"llama3.2:1b", ""},
     rule_engine_only : BOOLEAN,
     ambiguity_threshold : {20, 40}]

\* Outcomes of the vision call client.generate(...) (lines 141-166).
\*   kind "raise": the call raises; raw is the exception text
\*   kind "text":  response text that json.loads rejects (JSONDecodeError)
\*   kind "object": response text that json.loads turns into the dict obj
\*   kind "array": response text that json.loads turns into a list
VisionOutcomes ==
    { [kind |-> "raise", raw |-> "connection refused", obj |-> NoPayload],
      [kind |-> "text", raw |-> "Large pothole on the road\n", obj |-> NoPayload],
      [kind |-> "text", raw |-> "a selfie next to a pothole", obj |-> NoPayload],
      [kind |-> "array", raw |-> "[]", obj |-> NoPayload],
      [kind |-> "object", raw |-> "{\"description\": \"Family photo at a flooded garbage dump\"}",
       obj |-> Obj(JStr("Family photo at a flooded garbage dump"), JAbsent, JAbsent,
                   JAbsent, JAbsent, JAbsent)],
      [kind |-> "object", raw |-> "{\"description\": \"Family photo beside a garbage dump\"}",
       obj |-> Obj(JStr("Family photo beside a garbage dump"), JAbsent, JAbsent,
                   JAbsent, JAbsent, JAbsent)],
      [kind |-> "object", raw |->
         "{\"description\": \"pothole near garbage\", \"visible_objects\": [\"pothole\", \"garbage\"], \"primary_issue\": \"pothole\", \"secondary_issue\": \"\", \"hazards\": [], \"setting\": \"road\"}",
       obj |-> Obj(JStr("pothole near garbage"), JStrList(<<"pothole", "garbage">>),
                   JStr("pothole"), JStr(""), JStrList(<<>>), JStr("road"))],
      [kind |-> "object", raw |->
         "{\"description\": \"something unclear\", \"visible_objects\": [], \"primary_issue\": \"\", \"secondary_issue\": \"\", \"hazards\": [], \"setting\": \"\"}",
       obj |-> Obj(JStr("something unclear"), JStrList(<<>>), JStr(""), JStr(""),
                   JStrList(<<>>), JStr(""))],
      [kind |-> "object", raw |->
         "{\"description\": \"dangling wires near a pole, sparks visible\", \"hazards\": [\"electrocution risk\"]}",
       obj |-> Obj(JStr("dangling wires near a pole, sparks visible"), JAbsent,
                   JAbsent, JAbsent, JStrList(<<"electrocution risk">>), JAbsent)],
      [kind |-> "object", raw |-> "{\"description\": \"waste on ground\", \"hazards\": null}",
       obj |-> Obj(JStr("waste on ground"), JAbsent, JAbsent, JAbsent, JNull, JAbsent)],
      [kind |-> "object", raw |-> "{\"description\": null, \"visible_objects\": \"pothole\"}",
       obj |-> Obj(JNull, JStr("pothole"), JAbsent, JAbsent, JAbsent, JAbsent)],
      [kind |-> "object", raw |->
         "{\"description\": \"A clear sky over a broken street light\", \"visible_objects\": [\"street light\"], \"primary_issue\": \"broken light\", \"secondary_issue\": \"\", \"hazards\": [], \"setting\": \"road\"}",
       obj |-> Obj(JStr("A clear sky over a broken street light"),
                   JStrList(<<"street light">>), JStr("broken light"), JStr(""),
                   JStrList(<<>>), JStr("road"))],
      [kind |-> "object", raw |->
         "{\"description\": \"tilted pole\", \"visible_objects\": [\"pet dog\"], \"primary_issue\": \"\", \"secondary_issue\": \"\", \"hazards\": [], \"setting\": \"\"}",
       obj |-> Obj(JStr("tilted pole"), JStrList(<<"pet dog">>), JStr(""), JStr(""),
                   JStrList(<<>>), JStr(""))],
      [kind |-> "object", raw |-> "{\"description\": \"road\"}",
       obj |-> Obj(JStr("road"), JAbsent, JAbsent, JAbsent, JAbsent, JAbsent)] }

\* Outcomes of the reasoning call client.generate(...) (lines 213-229).
\*   kind as above; department: parsed["department"] (JAbsent: key missing);
\*   ct/conf: parsed["confidence"]: its JSON type and, where float() accepts it,
\*   its value in ten-thousandths ("str_bad": a str float() rejects)
ReasoningOutcomes ==
    { [kind |-> "raise", raw |-> "timed out", department |-> JAbsent,
       ct |-> "absent", conf |-> 0],
      [kind |-> "text", raw |-> "Category: Municipal - Sanitation",
       department |-> JAbsent, ct |-> "absent", conf |-> 0],
      [kind |-> "text", raw |-> "I am not sure", department |-> JAbsent,
       ct |-> "absent", conf |-> 0],
      [kind |-> "text", raw |-> "", department |-> JAbsent, ct |-> "absent", conf |-> 0],
      [kind |-> "array", raw |-> "[]", department |-> JAbsent, ct |-> "absent", conf |-> 0],
      [kind |-> "object", raw |-> "{\"department\": \"Police - Traffic\", \"confidence\": 0.9}",
       department |-> JStr("Police - Traffic"), ct |-> "num", conf |-> 9000],
      [kind |-> "object", raw |-> "{\"department\": \"Municipal - Sanitation\", \"confidence\": 7}",
       department |-> JStr("Municipal - Sanitation"), ct |-> "num", conf |-> 70000],
      [kind |-> "object", raw |-> "{\"department\": \"Pollution Control Board\", \"confidence\": -0.5}",
       department |-> JStr("Pollution Control Board"), ct |-> "num", conf |-> -5000],
      [kind |-> "object", raw |-> "{\"department\": \"Uncategorized\", \"confidence\": 0.3}",
       department |-> JStr("Uncategorized"), ct |-> "num", conf |-> 3000],
      [kind |-> "object", raw |-> "{}", department |-> JAbsent, ct |-> "absent", conf |-> 0],
      [kind |-> "object", raw |-> "{\"department\": \"garbage problem\", \"confidence\": \"0.8\"}",
       department |-> JStr("garbage problem"), ct |-> "str_num", conf |-> 8000],
      [kind |-> "object",
       raw |-> "{\"department\": \"Municipal - PWD (Roads)\", \"confidence\": \"high\"}",
       department |-> JStr("Municipal - PWD (Roads)"), ct |-> "str_bad", conf |-> 0],
      [kind |-> "object", raw |-> "{\"department\": null, \"confidence\": null}",
       department |-> JNull, ct |-> "null", conf |-> 0] }

\* lines 176-181: dict.setdefault fills only the keys that are missing
SetDefaults(payload) ==
    [k \in PayloadKeys |->
        IF payload[k].t # "absent" THEN payload[k]
        ELSE IF k \in {"visible_objects", "hazards"} THEN JList(<<>>) ELSE JStr("")]

\* lines 166-181: strip, json.loads (a JSONDecodeError wraps the text), setdefault
NormalizeVision(out) ==
    SetDefaults(IF out.kind = "text" THEN parse_vision_text_to_payload(Strip(out.raw))
                ELSE out.obj)

\* lines 231-239: the reasoning response as {label, confidence}; ok = FALSE when
\* float() (ValueError, TypeError) or json.loads (JSONDecodeError) raised
ParseReasoning(out) ==
    IF out.kind = "object" /\ out.ct \in {"absent", "num", "str_num"}
    THEN [ok |-> TRUE,
          label |-> PyStr(Get(out, "department", JStr("Uncategorized"))),
          conf |-> IF out.ct = "absent" THEN 5000 ELSE out.conf]
    ELSE [ok |-> FALSE, label |-> Strip(out.raw), conf |-> 5000]

\* lines 241 and 233/238: reasoning_canonical and reasoning_conf, "" and 0
\* while the reasoning step has produced none
NoReasoned == [canonical |-> "", conf |-> 0]

\* a merge that always takes the reasoning result
Adopt_always(reasoning_canonical, rule_canonical) == TRUE

\* line 244: the merge policy
Adopt(reasoning_canonical, rule_canonical) ==
    reasoning_canonical # "Uncategorized" \/ rule_canonical = "Uncategorized"

\* lines 124-132
FileNotFoundDecision ==
    [department |-> "Unknown", confidence |-> 0, is_valid |-> FALSE,
     method |-> "error", has_error |-> FALSE, error |-> ""]

\* lines 280-291: the outermost handler
ErrorDecision(text) ==
    [department |-> "Unknown", confidence |-> 0, is_valid |-> FALSE,
     method |-> "error", has_error |-> TRUE, error |-> text]

NoDecision ==
    [department |-> "", confidence |-> 0, is_valid |-> FALSE,
     method |-> "none", has_error |-> FALSE, error |-> ""]

NoRuleResult ==
    [raised |-> FALSE, category |-> "", confidence |-> 0, is_ambiguous |-> FALSE,
     scores |-> <<>>, method |-> "none"]

\* a gate that does not look at rule_engine_only
ReasoningGate_ignores_rule_engine_only(is_ambiguous, cfg) ==
    is_ambiguous /\ cfg.reasoning_model # ""

\* line 204: is the reasoning model consulted
ReasoningGate(is_ambiguous, cfg) ==
    is_ambiguous /\ cfg.reasoning_model # "" /\ ~cfg.rule_engine_only

\* a validity gate that looks at the category only
FinalDecision_category_only(category, conf, how, desc_text) ==
    LET is_valid == category # "Uncategorized"
    IN  [department |-> category,
         confidence |-> IF is_valid THEN conf ELSE Max(conf \div 2, 1000),
         is_valid |-> is_valid, method |-> how, has_error |-> FALSE, error |-> ""]

\* lines 262-270
FinalDecision(category, conf, how, desc_text) ==
    LET is_non_civic == AnyIn(Lower(desc_text), NEGATIVE_KEYWORDS)
        is_valid     == category # "Uncategorized" /\ ~is_non_civic
    IN  [department |-> category,
         confidence |-> IF is_valid THEN conf ELSE Max(conf \div 2, 1000),
         is_valid |-> is_valid, method |-> how, has_error |-> FALSE, error |-> ""]

-----------------------------------------------------------------------------
(* CivicClassifier.classify as a sequence of steps                         *)

ClsInit ==
    /\ pc = "start"
    /\ image \in Images
    /\ settings \in SettingsSet
    /\ vision_payload = NoPayload
    /\ description = ""
    /\ rule_result = NoRuleResult
    /\ canonical = ""
    /\ model_confidence = 0
    /\ method = "none"
    /\ vision = "none"
    /\ reasoning = "none"
    /\ reasoned = NoReasoned
    /\ decision = NoDecision
    /\ propagated = ""

\* lines 123-132: os.path.exists is evaluated before the try block; it returns
\* False for a missing path and raises TypeError for an argument that is no path
ClassifyEntry ==
    /\ pc = "start"
    /\ pc' = CASE image = "image_object" -> "raised"
               [] image = "missing_path" -> "done"
               [] OTHER                  -> "vision"
    /\ propagated' = IF image = "image_object"
                     THEN "TypeError: stat: path should be string, bytes, os.PathLike or integer"
                     ELSE ""
    /\ decision' = IF image = "missing_path" THEN FileNotFoundDecision ELSE decision
    /\ UNCHANGED <<cmpVars, auxVars>>
    /\ UNCHANGED <<image, settings, vision_payload, description, rule_result,
                   canonical, model_confidence, method, vision, reasoning, reasoned>>

\* lines 135-183: load the image, call the vision model, normalize its output
VisionStep ==
    /\ pc = "vision"
    /\ \E out \in VisionOutcomes :
          LET failure ==
                  CASE image = "unreadable_file" -> "cannot identify image file"
                    [] out.kind = "raise"        -> out.raw
                    [] out.kind = "array"        -> "'list' object has no attribute 'setdefault'"
                    [] OTHER                     -> ""
              payload == NormalizeVision(out)
          IN  /\ vision' = CASE image = "unreadable_file" -> "none"
                              [] out.kind = "raise"        -> "raised"
                              [] OTHER                     -> out.kind
              /\ IF failure # ""
                THEN /\ pc' = "done"
                     /\ decision' = ErrorDecision(failure)
                     /\ UNCHANGED <<vision_payload, description>>
                ELSE /\ pc' = "rules"
                     /\ vision_payload' = payload
                     /\ description' = PyStr(payload["description"])
                     /\ UNCHANGED decision
    /\ UNCHANGED <<cmpVars, auxVars>>
    /\ UNCHANGED <<image, settings, rule_result, canonical, model_confidence,
                   method, reasoning, reasoned, propagated>>

\* lines 188-193: classify_by_rules is called with its default thresholds
RuleStep ==
    /\ pc = "rules"
    /\ \E r \in {classify_by_rules(vision_payload, DefaultAmbiguityThreshold,
                                   DefaultConfidenceGapThreshold)} :
           IF r.raised
           THEN /\ pc' = "done"
                /\ decision' = ErrorDecision("sequence item 0: expected str instance")
                /\ UNCHANGED <<rule_result, canonical, model_confidence, method>>
           ELSE /\ pc' = "reasoning"
                /\ rule_result' = r
                /\ canonical' = r.category
                /\ model_confidence' = r.confidence
                /\ method' = r.method
                /\ UNCHANGED decision
    /\ UNCHANGED <<cmpVars, auxVars>>
    /\ UNCHANGED <<image, settings, vision_payload, description, vision, reasoning, reasoned,
                   propagated>>

\* lines 204-251: the optional reasoning call, its parse and the merge
ReasoningStep ==
    /\ pc = "reasoning"
    /\ IF ~ReasoningGate(rule_result.is_ambiguous, settings)
       THEN /\ pc' = "fallback"
            /\ reasoning' = "skipped"
            /\ reasoned' = NoReasoned
            /\ UNCHANGED <<canonical, model_confidence, method, decision>>
       ELSE \E out \in ReasoningOutcomes :
              IF out.kind \in {"raise", "array"}
              THEN /\ pc' = "done"
                   /\ reasoning' = IF out.kind = "raise" THEN "raised" ELSE "bad_shape"
                   /\ reasoned' = NoReasoned
                   /\ decision' = ErrorDecision(
                          IF out.kind = "raise" THEN out.raw
                          ELSE "'list' object has no attribute 'get'")
                   /\ UNCHANGED <<canonical, model_confidence, method>>
              ELSE \E parsed \in {ParseReasoning(out)} :
                   \E reasoning_canonical \in {canonicalize_label(parsed.label)} :
                   LET adopt == Adopt(reasoning_canonical, canonical)
                   IN  /\ pc' = "fallback"
                       /\ reasoning' = IF parsed.ok THEN "parsed" ELSE "parse_failed"
                       /\ reasoned' = [canonical |-> reasoning_canonical, conf |-> parsed.conf]
                       /\ canonical' = IF adopt THEN reasoning_canonical ELSE canonical
                       /\ model_confidence' = IF adopt THEN parsed.conf ELSE model_confidence
                       /\ method' = IF adopt THEN "reasoning" ELSE method
                       /\ UNCHANGED decision
    /\ UNCHANGED <<cmpVars, auxVars>>
    /\ UNCHANGED <<image, settings, vision_payload, description, rule_result, vision,
                   propagated>>

\* lines 254-259: keyword scan of the description if still Uncategorized
FallbackStep ==
    /\ pc = "fallback"
    /\ \E keyword_result \in {keyword_fallback(description)} :
       LET resolved == canonical = "Uncategorized" /\ keyword_result # "Uncategorized"
       IN  /\ canonical' = IF resolved THEN keyword_result ELSE canonical
           /\ method' = IF resolved THEN "keyword_fallback" ELSE method
           /\ model_confidence' = IF resolved THEN Min(model_confidence, 6500)
                                  ELSE model_confidence
    /\ pc' = "validity"
    /\ UNCHANGED <<cmpVars, auxVars>>
    /\ UNCHANGED <<image, settings, vision_payload, description, rule_result,
                   vision, reasoning, reasoned, decision, propagated>>

\* lines 262-278: validity gate and return
ReturnStep ==
    /\ pc = "validity"
    /\ decision' = FinalDecision(canonical, model_confidence, method, description)
    /\ pc' = "done"
    /\ UNCHANGED <<cmpVars, auxVars>>
    /\ UNCHANGED <<image, settings, vision_payload, description, rule_result,
                   canonical, model_confidence, method, vision, reasoning, reasoned, propagated>>

ClsNext ==
    \/ ClassifyEntry
    \/ VisionStep
    \/ RuleStep
    \/ ReasoningStep
    \/ FallbackStep
    \/ ReturnStep

-----------------------------------------------------------------------------
(* authorities.py                                                          *)

\* Python's None, where an id is Optional[str]
None == "<None>"

Authority(id, level, escalation_days, parent_authority_id) ==
    [id |-> id, level |-> level, escalation_days |-> escalation_days,
     parent_authority_id |-> parent_authority_id]

AUTHORITIES_DB ==
    << Authority("MUNI_PWD",          "LOCAL",  21, "STATE_CMO"),
       Authority("MUNI_SANITATION",   "LOCAL",   7, "STATE_CMO"),
       Authority("MUNI_HORTICULTURE", "LOCAL",  14, "STATE_CMO"),
       Authority("MUNI_LIGHTING",     "LOCAL",   7, "UTIL_DISCOM"),
       Authority("MUNI_WATER",        "LOCAL",  10, "STATE_CMO"),
       Authority("UTIL_DISCOM",       "STATE",   3, "STATE_CMO"),
       Authority("UTIL_TRANSPORT",    "STATE",  14, "STATE_CMO"),
       Authority("UTIL_PCB",          "STATE",  14, "CENTRAL_DARPG"),
       Authority("POLICE_LOCAL",      "SAFETY",  3, "STATE_HOME_DEPT"),
       Authority("POLICE_TRAFFIC",    "SAFETY",  3, "STATE_HOME_DEPT"),
       Authority("STATE_CMO",         "APEX",   30, "CENTRAL_DARPG"),
       Authority("CENTRAL_DARPG",     "APEX",   60, None) >>

\* what get_authority_by_id returns when no authority has the id (Python None)
NoAuthority == Authority(None, "", 0, None)

get_authority_by_id(auth_id) ==
    LET hits == {i \in 1..Len(AUTHORITIES_DB) : AUTHORITIES_DB[i].id = auth_id}
    IN  IF hits = {} THEN NoAuthority
        ELSE AUTHORITIES_DB[CHOOSE i \in hits : \A j \in hits : i <= j]

\* the dict as <<key, authority id>> pairs
CLASSIFIER_TO_AUTHORITY_MAP ==
    << <<"Municipal - PWD (Roads)",        "MUNI_PWD">>,
       <<"Municipal - PWD (Bridges)",      "MUNI_PWD">>,
       <<"Municipal - Sanitation",         "MUNI_SANITATION">>,
       <<"Municipal - Horticulture",       "MUNI_HORTICULTURE">>,
       <<"Municipal - Street Lighting",    "MUNI_LIGHTING">>,
       <<"Municipal - Water & Sewerage",   "MUNI_WATER">>,
       <<"Utility - Power (DISCOM)",       "UTIL_DISCOM">>,
       <<"State Transport",                "UTIL_TRANSPORT">>,
       <<"Pollution Control Board",        "UTIL_PCB">>,
       <<"Police - Local Law Enforcement", "POLICE_LOCAL">>,
       <<"Police - Traffic",               "POLICE_TRAFFIC">>,
       <<"Civil Engineering Dept",         "MUNI_PWD">>,
       <<"Sanitation Dept",                "MUNI_SANITATION">>,
       <<"Horticulture Dept",              "MUNI_HORTICULTURE">>,
       <<"Electricity Dept",               "MUNI_LIGHTING">>,
       <<"Drainage Dept",                  "MUNI_WATER">>,
       <<"Pollution Control Dept",         "UTIL_PCB">>,
       <<"Enforcement Dept",               "POLICE_LOCAL">> >>

\* CLASSIFIER_TO_AUTHORITY_MAP.get(dept_string)
MapGet(dept_string) ==
    LET hits == {i \in 1..Len(CLASSIFIER_TO_AUTHORITY_MAP) :
                    CLASSIFIER_TO_AUTHORITY_MAP[i][1] = dept_string}
    IN  IF hits = {} THEN None ELSE CLASSIFIER_TO_AUTHORITY_MAP[CHOOSE i \in hits : TRUE][2]

get_authority_id_from_dept_string(dept_string) ==
    LET auth_id == MapGet(dept_string)
        ds == Lower(dept_string)
    IN  IF auth_id # None THEN auth_id
        ELSE IF AnyIn(ds, {"garbage", "trash", "toilet", "sanitation", "waste"})
             THEN "MUNI_SANITATION"
        ELSE IF AnyIn(ds, {"road", "pothole", "pavement", "bridge", "civil"})
             THEN "MUNI_PWD"
        ELSE IF AnyIn(ds, {"light", "lamp", "dark"})
             THEN "MUNI_LIGHTING"
        ELSE IF AnyIn(ds, {"water", "drain", "pipe", "leak", "flood"})
             THEN "MUNI_WATER"
        ELSE IF AnyIn(ds, {"wire", "cable", "transformer", "electric", "power"})
             THEN "UTIL_DISCOM"
        ELSE IF AnyIn(ds, {"tree", "park", "plant"})
             THEN "MUNI_HORTICULTURE"
        ELSE IF AnyIn(ds, {"bus", "transport", "shelter"})
             THEN "UTIL_TRANSPORT"
        ELSE IF AnyIn(ds, {"smoke", "pollution", "burning", "fire"})
             THEN "UTIL_PCB"
        ELSE IF AnyIn(ds, {"police", "illegal", "encroachment", "parking", "traffic"})
             THEN (IF AnyIn(ds, {"traffic", "signal"}) THEN "POLICE_TRAFFIC"
                   ELSE "POLICE_LOCAL")
        ELSE None

\* route_authority with the parent link looked up on the exact-match branch only
route_authority_parent_on_exact_only(dept_string) ==
    LET exact == MapGet(dept_string)
        resolved == get_authority_id_from_dept_string(dept_string)
    IN  IF exact # None
        THEN [authority_id |-> exact, confidence |-> 9500, reason |-> "exact_match",
              escalation_parent_authority_id |->
                  get_authority_by_id(exact).parent_authority_id]
        ELSE [authority_id |-> resolved,
              confidence |-> IF resolved # None THEN 7500 ELSE 2000,
              reason |-> IF resolved # None THEN "keyword_match" ELSE "unmapped",
              escalation_parent_authority_id |-> None]

\* confidences in ten-thousandths
route_authority(dept_string) ==
    LET exact == MapGet(dept_string)
        resolved == get_authority_id_from_dept_string(dept_string)
    IN  IF exact # None
        THEN [authority_id |-> exact, confidence |-> 9500, reason |-> "exact_match",
              escalation_parent_authority_id |->
                  get_authority_by_id(exact).parent_authority_id]
        ELSE [authority_id |-> resolved,
              confidence |-> IF resolved # None THEN 7500 ELSE 2000,
              reason |-> IF resolved # None THEN "keyword_match" ELSE "unmapped",
              escalation_parent_authority_id |->
                  IF resolved # None
                  THEN get_authority_by_id(resolved).parent_authority_id
                  ELSE None]

-----------------------------------------------------------------------------
(* routers/complaints.py: create_complaint and escalate_complaint          *)

\* number of escalate requests that may be in flight at once
NumRequests == 2
\* escalate requests are no longer started once status_history is this long
MaxHistory == 5

Requests == 1..NumRequests

\* department strings a complaint is created with (ComplaintCreate.department is
\* any str): the classifier's categories, the generic map keys, free text
DeptStrings ==
    { "Municipal - PWD (Roads)", "Municipal - Sanitation", "Municipal - Horticulture",
      "Municipal - Street Lighting", "Municipal - Water & Sewerage",
      "Utility - Power (DISCOM)", "State Transport", "Pollution Control Board",
      "Police - Local Law Enforcement", "Police - Traffic", "Uncategorized",
      "Electricity Dept", "Some Unknown Dept", "illegal parking", "Police station",
      "encroachment", "traffic police", "police signal", "Garbage on the road",
      "Unknown" }

\* the authenticated caller of escalate (get_current_admin_or_dept_head)
Users ==
    { [role |-> "admin", department |-> None],
      [role |-> "dept_head", department |-> "Police - Local Law Enforcement"],
      [role |-> "dept_head", department |-> None] }

HistoryItem(status, note, from, to) ==
    [status |-> status, note |-> note, from |-> from, to |-> to]

NoComplaint ==
    [exists |-> FALSE, department |-> "", authority_id |-> None,
     escalation_parent_authority_id |-> None, status |-> "Open",
     status_history |-> <<>>]

NoRouting ==
    [authority_id |-> None, confidence |-> 0, reason |-> "none",
     escalation_parent_authority_id |-> None]

IdleRequest ==
    [pc |-> "idle", current_authority |-> None, parent_id |-> None,
     status |-> "", result |-> ""]

CmpInit ==
    /\ complaint = NoComplaint
    /\ routing = NoRouting
    /\ req = [r \in Requests |-> IdleRequest]

\* lines 110-147
create_complaint(dept_string) ==
    /\ ~complaint.exists
    /\ routing' = route_authority(dept_string)
    /\ complaint' =
          [exists |-> TRUE, department |-> dept_string,
           authority_id |-> routing'.authority_id,
           escalation_parent_authority_id |-> routing'.escalation_parent_authority_id,
           status |-> "Open",
           status_history |-> <<HistoryItem("Open", "Complaint created", None, None)>>]
    /\ UNCHANGED <<req, clsVars, auxVars>>

\* lines 276-278: the escalation target computed from the document that was read
EscalationTarget(doc) ==
    LET current_authority == doc.authority_id
        authority == IF current_authority # None
                     THEN get_authority_by_id(current_authority) ELSE NoAuthority
    IN  IF authority # NoAuthority THEN authority.parent_authority_id
        ELSE doc.escalation_parent_authority_id

\* lines 263-280: validate the id, find_one, the department check, the target.
\* The request ends here with an HTTP error, or goes on to the update.
EscalateRead(r, user, valid_id) ==
    /\ req[r].pc = "idle"
    /\ Len(complaint.status_history) < MaxHistory
    /\ LET parent_id == EscalationTarget(complaint)
           result ==
               CASE ~valid_id -> "400 Invalid ID format"
                 [] ~complaint.exists -> "404 Complaint not found"
                 [] /\ user.role = "dept_head"
                    /\ (user.department = None \/ complaint.department # user.department)
                      -> "403 Cannot escalate complaints outside your department"
                 [] parent_id = None -> "400 No escalation target available"
                 [] OTHER -> ""
       IN  req' = [req EXCEPT ![r] =
                     IF result # ""
                     THEN [IdleRequest EXCEPT !.pc = "done", !.result = result]
                     ELSE [pc |-> "update", current_authority |-> complaint.authority_id,
                           parent_id |-> parent_id, status |-> complaint.status,
                           result |-> ""]]
    /\ UNCHANGED <<complaint, routing, clsVars, auxVars>>

\* lines 282-302: find_one_and_update with the values computed from the earlier read
EscalateUpdate(r) ==
    /\ req[r].pc = "update"
    /\ complaint' =
          [complaint EXCEPT
              !.authority_id = req[r].parent_id,
              !.status_history = Append(@, HistoryItem(req[r].status, "Escalated",
                                         req[r].current_authority, req[r].parent_id))]
    /\ req' = [req EXCEPT ![r].pc = "done", ![r].result = "200"]
    /\ UNCHANGED <<routing, clsVars, auxVars>>

\* the response has been sent; the slot serves the next request
EscalateReturn(r) ==
    /\ req[r].pc = "done"
    /\ req' = [req EXCEPT ![r] = IdleRequest]
    /\ UNCHANGED <<complaint, routing, clsVars, auxVars>>

CmpNext ==
    \/ \E d \in DeptStrings : create_complaint(d)
    \/ \E r \in Requests, u \in Users, v \in BOOLEAN : EscalateRead(r, u, v)
    \/ \E r \in Requests : EscalateUpdate(r)
    \/ \E r \in Requests : EscalateReturn(r)

-----------------------------------------------------------------------------
(* category_utils.canonicalize_label on raw labels                         *)

\* a raw label is put together from at most this many pieces
MaxLabelParts == 3

\* pieces of raw labels: whitespace, underscore, alias words in either case,
\* a word no alias contains
LabelPieces == {" ", "_", "police", " - ", "traffic", "Police - Traffic", "Garbage"}

LabIdle ==
    /\ raw_label = ""
    /\ label_parts = 0
    /\ label_pc = "input"
    /\ once = ""
    /\ twice = ""

\* the caller extends the raw label it is about to pass
ExtendLabel ==
    /\ label_pc = "input"
    /\ label_parts < MaxLabelParts
    /\ \E piece \in LabelPieces : raw_label' = raw_label \o piece
    /\ label_parts' = label_parts + 1
    /\ UNCHANGED <<label_pc, once, twice, labOthers>>

\* canonicalize_label(label)
CanonicalizeOnce ==
    /\ label_pc = "input"
    /\ once' = canonicalize_label(raw_label)
    /\ label_pc' = "once"
    /\ UNCHANGED <<raw_label, label_parts, twice, labOthers>>

\* canonicalize_label applied to its own result (as labels_match and the
\* classifier do with labels that are already canonical)
CanonicalizeTwice ==
    /\ label_pc = "once"
    /\ twice' = canonicalize_label(once)
    /\ label_pc' = "twice"
    /\ UNCHANGED <<raw_label, label_parts, once, labOthers>>

LabNext == ExtendLabel \/ CanonicalizeOnce \/ CanonicalizeTwice

-----------------------------------------------------------------------------
(* rule_engine.classify_by_rules on vision signals, then route_authority   *)

\* a signal is put together from at most this many pieces
MaxSignalParts == 2

\* phrases a vision description or a hazard entry is made of
SignalPieces ==
    { "open transformer", "pothole", "garbage dump", "garbage", "a selfie",
      "Clear Sky", "dangling wires near a pole, sparks visible",
      "electrocution risk", "asphalt" }

\* the payload for a signal: description and hazards set, the rest defaulted
SignalPayload(sig) ==
    Obj(JStr(sig.description), JStrList(<<>>), JStr(""), JStr(""),
        JStrList(sig.hazards), JAbsent)

EngIdle ==
    /\ signal = [description |-> "", hazards |-> <<>>, parts |-> 0]
    /\ engine_pc = "input"
    /\ engine_result = NoRuleResult
    /\ engine_routing = NoRouting

\* the vision model's description gets one more phrase
ExtendDescription ==
    /\ engine_pc = "input"
    /\ signal.parts < MaxSignalParts
    /\ \E piece \in SignalPieces :
          signal' = [signal EXCEPT
                        !.description = IF @ = "" THEN piece ELSE @ \o " and " \o piece,
                        !.parts = @ + 1]
    /\ UNCHANGED <<engine_pc, engine_result, engine_routing, engOthers>>

\* the vision model's hazards list gets one more entry
AddHazard ==
    /\ engine_pc = "input"
    /\ signal.parts < MaxSignalParts
    /\ \E piece \in SignalPieces :
          signal' = [signal EXCEPT !.hazards = Append(@, piece), !.parts = @ + 1]
    /\ UNCHANGED <<engine_pc, engine_result, engine_routing, engOthers>>

\* classify_by_rules(vision_payload) with its default thresholds
ClassifySignal ==
    /\ engine_pc = "input"
    /\ engine_result' = classify_by_rules(SignalPayload(signal), DefaultAmbiguityThreshold,
                                          DefaultConfidenceGapThreshold)
    /\ engine_pc' = "classified"
    /\ UNCHANGED <<signal, engine_routing, engOthers>>

\* route_authority on the category the rule engine chose
RouteSignal ==
    /\ engine_pc = "classified"
    /\ engine_routing' = route_authority(engine_result.category)
    /\ engine_pc' = "routed"
    /\ UNCHANGED <<signal, engine_result, engOthers>>

EngNext == ExtendDescription \/ AddHazard \/ ClassifySignal \/ RouteSignal

-----------------------------------------------------------------------------
(* services/llm_queue.py: LLMQueueService, and generator.generate_complaint *)

\* settings.llm_queue_workers
NumWorkers == 2
\* number of jobs enqueued in one run
MaxJobs == 3

JobIds == 1..MaxJobs
WorkerIds == 1..NumWorkers

\* how the generation of a job goes: the letter is drafted; the image file is
\* missing; the model call raises inside generate_complaint; the call of
\* generate_complaint itself raises (an argument without .get, or to_thread
\* refusing the call)
JobKinds == {"drafts", "missing_file", "model_raises", "call_raises"}

\* generate_complaint as the worker sees it: the only exceptions that leave it
\* are those raised outside its try (lines 30-36)
generate_complaint(kind) ==
    CASE kind = "missing_file" ->
            [raised |-> FALSE, text |-> "Error: Image file not found at /uploads/x.jpg."]
      [] kind = "model_raises" ->
            [raised |-> FALSE,
             text |-> "System Note: Automated drafting failed (connection refused). Please draft manually based on category: Municipal - Sanitation."]
      [] kind = "call_raises" ->
            [raised |-> TRUE, text |-> "'NoneType' object has no attribute 'get'"]
      [] OTHER ->
            [raised |-> FALSE, text |-> "Subject: Garbage on the road"]

\* an entry of self.results; the keys a dict does not have are ""/0
Entry(status, worker_id, generated_complaint, error) ==
    [status |-> status, worker_id |-> worker_id,
     generated_complaint |-> generated_complaint, error |-> error]

NoEntry == Entry("absent", 0, "", "")

NoWorker == [state |-> "none", job |-> 0]

QInit ==
    /\ queue = <<>>
    /\ results = [j \in JobIds |-> NoEntry]
    /\ workers = [w \in WorkerIds |-> NoWorker]
    /\ jobs = [j \in JobIds |-> "none"]
    /\ taken = <<>>

\* lines 25-30
start ==
    /\ workers' = IF \E w \in WorkerIds : workers[w].state # "none"
                  THEN workers
                  ELSE [w \in WorkerIds |-> [state |-> "waiting", job |-> 0]]
    /\ UNCHANGED <<queue, results, jobs, taken, qOthers>>

\* lines 32-35: every task is cancelled and the list cleared; a job a worker
\* was generating keeps the entry it has
stop ==
    /\ workers' = [w \in WorkerIds |-> NoWorker]
    /\ UNCHANGED <<queue, results, jobs, taken, qOthers>>

\* lines 61-73; the job id is fresh (uuid4)
enqueue(kind) ==
    /\ \E job_id \in JobIds :
          /\ jobs[job_id] = "none"
          /\ \A j \in JobIds : j < job_id => jobs[j] # "none"
          /\ jobs' = [jobs EXCEPT ![job_id] = kind]
          /\ results' = [results EXCEPT ![job_id] = Entry("queued", 0, "", "")]
          /\ queue' = Append(queue, job_id)
    /\ UNCHANGED <<workers, taken, qOthers>>

\* a worker that takes the job without recording that it is processing it
WorkerTake_without_processing(worker_id) ==
    /\ workers[worker_id].state = "waiting"
    /\ queue # <<>>
    /\ LET job_id == Head(queue)
       IN  /\ queue' = Tail(queue)
           /\ workers' = [workers EXCEPT ![worker_id] = [state |-> "running", job |-> job_id]]
           /\ taken' = Append(taken, job_id)
    /\ UNCHANGED <<results, jobs, qOthers>>

\* lines 39-40: queue.get() returns the oldest job, the entry becomes processing
WorkerTake(worker_id) ==
    /\ workers[worker_id].state = "waiting"
    /\ queue # <<>>
    /\ LET job_id == Head(queue)
       IN  /\ queue' = Tail(queue)
           /\ results' = [results EXCEPT ![job_id] = Entry("processing", worker_id, "", "")]
           /\ workers' = [workers EXCEPT ![worker_id] = [state |-> "running", job |-> job_id]]
           /\ taken' = Append(taken, job_id)
    /\ UNCHANGED <<jobs, qOthers>>

\* a worker whose loop ends when the generation raises
WorkerFinish_dies_on_error(worker_id) ==
    /\ workers[worker_id].state = "running"
    /\ LET job_id == workers[worker_id].job
           out == generate_complaint(jobs[job_id])
       IN  /\ results' = [results EXCEPT ![job_id] =
                             IF out.raised THEN Entry("failed", 0, "", out.text)
                             ELSE Entry("completed", 0, out.text, "")]
           /\ workers' = [workers EXCEPT ![worker_id] =
                             IF out.raised THEN [state |-> "dead", job |-> 0]
                             ELSE [state |-> "waiting", job |-> 0]]
    /\ UNCHANGED <<queue, jobs, taken, qOthers>>

\* lines 41-59: the call in the thread ends; completed or failed
WorkerFinish(worker_id) ==
    /\ workers[worker_id].state = "running"
    /\ LET job_id == workers[worker_id].job
           out == generate_complaint(jobs[job_id])
       IN  results' = [results EXCEPT ![job_id] =
                          IF out.raised THEN Entry("failed", 0, "", out.text)
                          ELSE Entry("completed", 0, out.text, "")]
    /\ workers' = [workers EXCEPT ![worker_id] = [state |-> "waiting", job |-> 0]]
    /\ UNCHANGED <<queue, jobs, taken, qOthers>>

QNext ==
    \/ start
    \/ stop
    \/ \E kind \in JobKinds : enqueue(kind)
    \/ \E w \in WorkerIds : WorkerTake(w)
    \/ \E w \in WorkerIds : WorkerFinish(w)

-----------------------------------------------------------------------------
(* schemas.py: GeoLocation and AIMetadata.  Coordinates are in
   ten-thousandths of a degree, confidence scores in ten-thousandths. *)

\* how many whole units beyond a range the constructions try
MaxExcess == 2

\* Field(..., ge=-90, le=90)
LatMin == -900000
LatMax == 900000
\* Field(..., ge=-180, le=180)
LonMin == -1800000
LonMax == 1800000
\* Field(..., ge=0.0, le=1.0)
ScoreMin == 0
ScoreMax == 10000

\* a required field that the caller left out
Missing == "<missing>"

\* class LocationSource
LocationSource == {"exif", "device", "manual"}

\* le= of Field
Le_strict(value, bound) == value < bound
Le(value, bound) == value <= bound

\* ge= of Field
Ge(value, bound) == value >= bound

\* the values tried for a field with the range lo..hi: both ends, their
\* neighbours, values inside, and whole units beyond either end
Tried(lo, hi, inside) ==
    {lo - 1, lo, lo + 1, hi - 1, hi, hi + 1} \cup inside
        \cup {lo - k * 10000 : k \in 1..MaxExcess}
        \cup {hi + k * 10000 : k \in 1..MaxExcess}

LatValues == Tried(LatMin, LatMax, {0, 286139, 280000})
LonValues == Tried(LonMin, LonMax, {0, 772090, 772000})
ScoreValues == Tried(ScoreMin, ScoreMax, {5000, 9500})
SourceValues == LocationSource \cup {"gps", Missing}
DepartmentValues == {"Civil", Missing}

Call(schema, lat, lon, source, confidence_score, detected_department) ==
    [schema |-> schema, lat |-> lat, lon |-> lon, source |-> source,
     confidence_score |-> confidence_score,
     detected_department |-> detected_department]

NoCall == Call("none", 0, 0, Missing, 0, Missing)

\* the fields of GeoLocation(lat, lon, source) that fail validation
GeoLocationErrors(lat, lon, source) ==
    {f \in {"lat"} : ~(Ge(lat, LatMin) /\ Le(lat, LatMax))}
        \cup {f \in {"lon"} : ~(Ge(lon, LonMin) /\ Le(lon, LonMax))}
        \cup {f \in {"source"} : source \notin LocationSource}

\* the fields of AIMetadata(confidence_score, detected_department) that fail
AIMetadataErrors(confidence_score, detected_department) ==
    {f \in {"confidence_score"} :
        ~(Ge(confidence_score, ScoreMin) /\ Le(confidence_score, ScoreMax))}
        \cup {f \in {"detected_department"} : detected_department = Missing}

\* BaseModel.__init__: the object when no field fails, ValidationError and no
\* object otherwise
Construct(call, errors) ==
    [errors |-> errors, obj |-> IF errors = {} THEN call ELSE NoCall]

SchInit ==
    /\ schema_call = NoCall
    /\ schema_result = Construct(NoCall, {})

ConstructGeoLocation ==
    /\ \E lat \in LatValues, lon \in LonValues, source \in SourceValues :
          /\ schema_call' = Call("GeoLocation", lat, lon, source, 0, Missing)
          /\ schema_result' = Construct(schema_call', GeoLocationErrors(lat, lon, source))
    /\ UNCHANGED schOthers

ConstructAIMetadata ==
    /\ \E confidence_score \in ScoreValues, detected_department \in DepartmentValues :
          /\ schema_call' = Call("AIMetadata", 0, 0, Missing, confidence_score, detected_department)
          /\ schema_result' = Construct(schema_call',
                                  AIMetadataErrors(confidence_score, detected_department))
    /\ UNCHANGED schOthers

SchNext ==
    \/ ConstructGeoLocation
    \/ ConstructAIMetadata

-----------------------------------------------------------------------------
(* Specifications                                                          *)

\* one run of classify(); the complaint side stays idle
AuxIdle == LabIdle /\ EngIdle /\ QInit /\ SchInit
Init == ClsInit /\ CmpInit /\ AuxIdle
Next == ClsNext
Spec == Init /\ [][Next]_vars

\* one complaint, created and then escalated; no classify() run
ClsIdle ==
    /\ ClsInit
    /\ image = "missing_path"
    /\ settings = [reasoning_model |-> "llama3.2:1b", rule_engine_only |-> FALSE,
                   ambiguity_threshold |-> 20]
InitComplaints == ClsIdle /\ CmpInit /\ AuxIdle
NextComplaints == CmpNext
SpecComplaints == InitComplaints /\ [][NextComplaints]_vars

\* canonicalize_label over raw labels; nothing else runs
InitLabels == ClsIdle /\ CmpInit /\ AuxIdle
NextLabels == LabNext
SpecLabels == InitLabels /\ [][NextLabels]_vars

\* classify_by_rules over vision signals and the routing of its category
InitRules == ClsIdle /\ CmpInit /\ AuxIdle
NextRules == EngNext
SpecRules == InitRules /\ [][NextRules]_vars

\* the job queue: start, stop, enqueue and the workers
InitQueue == ClsIdle /\ CmpInit /\ AuxIdle
NextQueue == QNext
SpecQueue == InitQueue /\ [][NextQueue]_vars

\* the job queue while the service is running: stop() is not called, every
\* worker that can take a job or end a generation eventually does
NextRunning ==
    \/ start
    \/ \E kind \in JobKinds : enqueue(kind)
    \/ \E w \in WorkerIds : WorkerTake(w)
    \/ \E w \in WorkerIds : WorkerFinish(w)
FairWorkers == \A w \in WorkerIds : WF_vars(WorkerTake(w)) /\ WF_vars(WorkerFinish(w))
SpecRunning == InitQueue /\ [][NextRunning]_vars /\ FairWorkers

\* the constructions of GeoLocation and AIMetadata
InitSchemas == ClsIdle /\ CmpInit /\ AuxIdle
NextSchemas == SchNext
SpecSchemas == InitSchemas /\ [][NextSchemas]_vars

-----------------------------------------------------------------------------
(* Properties of CivicClassifier.classify, checked under Spec              *)

\* C1: classify never propagates an exception to its caller: no run ends with
\* an exception leaving classify, and whenever the vision call or the reasoning
\* call raised, the run returns the error decision (Unknown, confidence 0,
\* is_valid false, method error) carrying the exception text.
C1_NeverPropagates ==
    /\ pc # "raised"
    /\ propagated = ""
    /\ (pc = "done" /\ (vision = "raised" \/ reasoning = "raised")) =>
          /\ decision = ErrorDecision(decision.error)
          /\ decision.error # ""

\* C2 (as stated): the department of every returned decision, the file-not-found
\* and exception paths included, is one of the 11 CANONICAL_CATEGORIES.
C2_EveryDecisionCanonical ==
    pc = "done" => decision.department \in CanonicalSet

\* C2 (amended): the department of every decision returned on a non-error path
\* (rule engine, reasoning, keyword fallback, validity gate) is one of the 11
\* CANONICAL_CATEGORIES, and so is the category carried between the steps; the
\* file-not-found and exception decisions carry the sentinel "Unknown".
C2_NonErrorDecisionCanonical ==
    /\ pc \in {"reasoning", "fallback", "validity"} => canonical \in CanonicalSet
    /\ pc = "done" =>
          IF decision.method = "error"
          THEN decision.department = "Unknown" /\ "Unknown" \notin CanonicalSet
          ELSE decision.department \in CanonicalSet

\* a free-text reasoning response was adopted and a decision was returned
C2_FreeTextReasoningReturned ==
    /\ pc = "done"
    /\ reasoning = "parse_failed"
    /\ decision.method = "reasoning"
    /\ decision.department \in CanonicalSet

\* C3: when the combined text of the vision signal (description,
\* visible_objects, primary_issue, secondary_issue, hazards) contains a non-civic
\* keyword, the returned decision is Uncategorized, is_valid false, method
\* rule_engine_non_civic, whatever civic keywords are also present.
C3_NegativeKeywordShortCircuits ==
    ( /\ pc = "done"
      /\ rule_result.method # "none"
      /\ ~rule_result.raised
      /\ reasoning \notin {"raised", "bad_shape"}
      /\ AnyIn(Lower(CombinedText(vision_payload)), NON_CIVIC_KEYWORDS) )
    => /\ decision.department = "Uncategorized"
       /\ ~decision.is_valid
       /\ decision.method = "rule_engine_non_civic"

\* C4: the confidence of every returned decision lies in [0, 1]
\* (0..10000 ten-thousandths), whichever stage produced it.
C4_ConfidenceInUnitInterval ==
    pc = "done" => decision.confidence >= 0 /\ decision.confidence <= 10000

\* C9: if the reasoning step fails (the call raises, or its response cannot be
\* parsed into label and confidence) the rule-engine result is retained: the
\* category, confidence and method entering the keyword fallback are those of
\* the rule engine, and the decision returned is not an error decision.
C9_ReasoningFailureRetainsRuleResult ==
    /\ (pc = "fallback" /\ reasoning = "parse_failed") =>
          /\ canonical = rule_result.category
          /\ model_confidence = rule_result.confidence
          /\ method = rule_result.method
    /\ reasoning \in {"raised", "bad_shape", "parse_failed"} =>
          ~(pc = "done" /\ decision.method = "error")

\* C10: malformed vision output never fails the pipeline: whenever the vision
\* call returned (text that is not JSON, JSON that is not an object, an object
\* with missing or wrongly-typed fields), rule scoring is reached and the
\* returned decision does not have method error.
C10_MalformedVisionNeverErrors ==
    ( /\ pc = "done"
      /\ vision \in {"text", "array", "object"}
      /\ reasoning \notin {"raised", "bad_shape"} )
    => /\ rule_result.method # "none"
       /\ decision.method # "error"

-----------------------------------------------------------------------------
(* Properties of routing and escalation, checked under SpecComplaints      *)

AuthorityIds == {AUTHORITIES_DB[i].id : i \in 1..Len(AUTHORITIES_DB)}

\* the parent link of the registry entry with this id; None when the entry has
\* no parent or no entry has the id
StaticParent(id) ==
    IF \E i \in 1..Len(AUTHORITIES_DB) : AUTHORITIES_DB[i].id = id
    THEN AUTHORITIES_DB[CHOOSE i \in 1..Len(AUTHORITIES_DB) :
                            AUTHORITIES_DB[i].id = id].parent_authority_id
    ELSE None

\* an escalate request for an existing complaint that passed the id check and
\* the department check in this step
PassedChecks(r) ==
    /\ req[r].pc = "idle"
    /\ req'[r].pc # "idle"
    /\ req'[r].result \notin {"400 Invalid ID format", "404 Complaint not found",
                              "403 Cannot escalate complaints outside your department"}

\* C5: escalating a complaint whose current authority has a parent sets
\* authority_id to that parent and succeeds (POLICE_LOCAL becomes
\* STATE_HOME_DEPT); escalating a complaint whose current authority has no
\* parent (CENTRAL_DARPG), or that has no authority and no stored parent, fails
\* with 'No escalation target available' and leaves the complaint unchanged.
C5_EscalateToParentOrFail ==
    [][\A r \in Requests :
         LET current == complaint.authority_id
             parent  == StaticParent(current)
         IN  /\ (PassedChecks(r) /\ parent # None) =>
                    /\ req'[r].pc = "update"
                    /\ req'[r].parent_id = parent
             /\ (PassedChecks(r) /\ current = "POLICE_LOCAL") =>
                    req'[r].parent_id = "STATE_HOME_DEPT"
             /\ (PassedChecks(r) /\
                   \/ current # None /\ parent = None
                   \/ current = None /\ complaint.escalation_parent_authority_id = None) =>
                    /\ req'[r].result = "400 No escalation target available"
                    /\ complaint' = complaint
             /\ (req[r].pc = "update" /\ req'[r].pc = "done") =>
                    /\ req'[r].result = "200"
                    /\ complaint'.authority_id = req[r].parent_id
                    /\ Len(complaint'.status_history) = Len(complaint.status_history) + 1
      ]_vars

\* the ids visited by following parent links from id, at most n of them
RECURSIVE ParentChain(_, _)
ParentChain(id, n) ==
    IF n = 0 \/ id \notin AuthorityIds THEN <<>>
    ELSE <<id>> \o ParentChain(StaticParent(id), n - 1)

\* ids are unique, every non-Apex authority has a parent, every parent that is
\* set is registered, and no chain of parent links visits an authority twice
RegistryIsForest ==
    LET n == Len(AUTHORITIES_DB)
    IN  /\ \A i, j \in 1..n : AUTHORITIES_DB[i].id = AUTHORITIES_DB[j].id => i = j
        /\ \A i \in 1..n : AUTHORITIES_DB[i].level # "APEX" =>
                              AUTHORITIES_DB[i].parent_authority_id # None
        /\ \A i \in 1..n : AUTHORITIES_DB[i].parent_authority_id # None =>
                              AUTHORITIES_DB[i].parent_authority_id \in AuthorityIds
        /\ \A i \in 1..n :
              LET chain == ParentChain(AUTHORITIES_DB[i].id, n + 1)
              IN  \A k, l \in 1..Len(chain) : chain[k] = chain[l] => k = l

\* C6: the authority registry is a forest: ids are unique, every non-Apex
\* authority has a parent, every parent_authority_id that is set is the id of an
\* authority in the registry, and following parent links never visits an
\* authority twice. Stated for the registry every routed complaint relies on.
C6_RegistryIsForest ==
    complaint.exists => RegistryIsForest

\* every keyword of the keyword-fallback routing
DomainKeywords ==
    { "garbage", "trash", "toilet", "sanitation", "waste",
      "road", "pothole", "pavement", "bridge", "civil",
      "light", "lamp", "dark",
      "water", "drain", "pipe", "leak", "flood",
      "wire", "cable", "transformer", "electric", "power",
      "tree", "park", "plant",
      "bus", "transport", "shelter",
      "smoke", "pollution", "burning", "fire",
      "police", "illegal", "encroachment", "parking", "traffic" }

MapKeys == {CLASSIFIER_TO_AUTHORITY_MAP[i][1] : i \in 1..Len(CLASSIFIER_TO_AUTHORITY_MAP)}

\* the labels in which some domain keyword occurs (case-insensitively)
KeywordHitLabels ==
    {d \in DeptStrings : \E kw \in DomainKeywords : Contains(Lower(d), kw)}

\* C7: route_authority(label) has exactly one of three outcomes: the label is a
\* key of the classifier-output map (mapped id, exact_match, 0.95); otherwise a
\* domain keyword occurs in it (keyword_match, 0.75); otherwise authority_id
\* None, unmapped, 0.2. escalation_parent_authority_id is the static parent link
\* of the resolved authority, None when nothing is resolved or it has no parent.
C7_RouteAuthorityOutcomes ==
    complaint.exists =>
        LET label == complaint.department
            keyword_hit == label \in KeywordHitLabels
        IN  /\ label \in MapKeys =>
                  /\ \E i \in 1..Len(CLASSIFIER_TO_AUTHORITY_MAP) :
                        CLASSIFIER_TO_AUTHORITY_MAP[i] = <<label, routing.authority_id>>
                  /\ routing.reason = "exact_match"
                  /\ routing.confidence = 9500
            /\ (label \notin MapKeys /\ keyword_hit) =>
                  /\ routing.authority_id \in AuthorityIds
                  /\ routing.reason = "keyword_match"
                  /\ routing.confidence = 7500
            /\ (label \notin MapKeys /\ ~keyword_hit) =>
                  /\ routing.authority_id = None
                  /\ routing.reason = "unmapped"
                  /\ routing.confidence = 2000
            /\ routing.escalation_parent_authority_id =
                  (IF routing.authority_id = None THEN None
                   ELSE StaticParent(routing.authority_id))
            /\ label = "Municipal - Sanitation" =>
                  routing = [authority_id |-> "MUNI_SANITATION", confidence |-> 9500,
                             reason |-> "exact_match",
                             escalation_parent_authority_id |-> "STATE_CMO"]
            /\ label = "Some Unknown Dept" =>
                  routing = [authority_id |-> None, confidence |-> 2000,
                             reason |-> "unmapped",
                             escalation_parent_authority_id |-> None]

\* a complaint was routed by keyword and carries the parent of the authority found
C7_KeywordRoutedWithParent ==
    /\ complaint.exists
    /\ complaint.department = "Garbage on the road"
    /\ routing.reason = "keyword_match"
    /\ routing.authority_id = "MUNI_SANITATION"
    /\ routing.escalation_parent_authority_id = "STATE_CMO"

\* C8: in keyword-fallback routing a label with no exact match that contains
\* 'police', 'parking' or 'encroachment' is routed to POLICE_LOCAL, unless it
\* also contains 'traffic' or 'signal', and then to POLICE_TRAFFIC.
C8_PoliceKeywordRouting ==
    ( /\ complaint.exists
      /\ complaint.department \notin MapKeys
      /\ AnyIn(Lower(complaint.department), {"police", "parking", "encroachment"}) )
    => routing.authority_id =
          (IF AnyIn(Lower(complaint.department), {"traffic", "signal"})
           THEN "POLICE_TRAFFIC" ELSE "POLICE_LOCAL")

-----------------------------------------------------------------------------
(* Properties of canonicalize_label, checked under SpecLabels              *)

\* C11: canonicalize_label is idempotent: for every raw label L,
\* canonicalize_label(canonicalize_label(L)) = canonicalize_label(L).
C11_CanonicalizeIdempotent ==
    label_pc = "twice" => twice = once

\* a mixed-case label with underscores was canonicalized to a real category,
\* and canonicalized again
C11_AliasCanonicalizedTwice ==
    /\ label_pc = "twice"
    /\ raw_label = "_Police - Traffic "
    /\ once = "Police - Traffic"

\* the label is the empty string or has only whitespace and underscores
RECURSIVE OnlySpaceOrUnderscore(_)
OnlySpaceOrUnderscore(s) ==
    \/ s = ""
    \/ /\ SubSeq(s, 1, 1) \in {" ", "_"}
       /\ OnlySpaceOrUnderscore(SubSeq(s, 2, Len(s)))

\* C12: for every raw label that is empty after normalization (the empty
\* string, or only whitespace and underscores) canonicalize_label returns
\* 'Uncategorized'.
C12_EmptyLabelUncategorized ==
    (label_pc # "input" /\ OnlySpaceOrUnderscore(raw_label)) => once = "Uncategorized"

-----------------------------------------------------------------------------
(* Properties of classify_by_rules and the routing of its category,        *)
(* checked under SpecRules                                                 *)

\* the signal under classification has this description and these hazards
SignalIs(desc, hazards) ==
    /\ engine_pc # "input"
    /\ signal.description = desc
    /\ signal.hazards = hazards

\* the score the returned table gives a category (tenths)
ScoreOf(result, category) ==
    result.scores[CHOOSE i \in 1..Len(CATEGORY_RULES) :
                     CATEGORY_RULES[i].category = category]

\* the highest score of the returned table
BestScore(result) ==
    CHOOSE v \in {result.scores[i] : i \in 1..Len(result.scores)} :
        \A i \in 1..Len(result.scores) : result.scores[i] <= v

\* some other category scores less than 1.0 below the best one
CloseCompetitor(result) ==
    \E i, j \in 1..Len(result.scores) :
        /\ i # j
        /\ result.scores[i] = BestScore(result)
        /\ result.scores[j] > BestScore(result) - 10

\* C13 (as stated): for a blob whose only content is 'open transformer',
\* classify_by_rules gives top score 3.0, is_ambiguous false, confidence 0.5.
C13_OpenTransformerScoresThree ==
    SignalIs("open transformer", <<>>) =>
        /\ BestScore(engine_result) = 30
        /\ ~engine_result.is_ambiguous
        /\ engine_result.confidence = 5000

\* C13 (amended): for a blob whose only content is 'open transformer' the top
\* score is 4.5 (3.0 for the phrase plus 1.5 for the generic 'transformer' rule
\* it also hits), is_ambiguous false, confidence 0.75; a blob whose only content
\* is a strong phrase that hits no other rule, 'pothole', gives top score 3.0,
\* is_ambiguous false, confidence 0.5.
C13_OpenTransformerScoresFourAndHalf ==
    /\ SignalIs("open transformer", <<>>) =>
          /\ engine_result.category = "Utility - Power (DISCOM)"
          /\ BestScore(engine_result) = 45
          /\ ScoreOf(engine_result, "Utility - Power (DISCOM)") = 45
          /\ ~engine_result.is_ambiguous
          /\ engine_result.confidence = 7500
    /\ SignalIs("pothole", <<>>) =>
          /\ engine_result.category = "Municipal - PWD (Roads)"
          /\ BestScore(engine_result) = 30
          /\ ~engine_result.is_ambiguous
          /\ engine_result.confidence = 5000

\* 'open transformer' alone has been classified
C13_OpenTransformerClassified ==
    /\ SignalIs("open transformer", <<>>)
    /\ engine_pc = "classified"
    /\ engine_result.method = "rule_engine"

\* C14 (as stated): a blob containing 'pothole' and 'garbage dump' is reported
\* is_ambiguous true, the gap between the two best scores being below 1.0.
C14_PotholeGarbageDumpAmbiguous ==
    (\/ SignalIs("pothole and garbage dump", <<>>)
     \/ SignalIs("garbage dump and pothole", <<>>)
     \/ SignalIs("pothole", <<"garbage dump">>)) =>
        /\ engine_result.is_ambiguous
        /\ CloseCompetitor(engine_result)

\* C14 (amended): whenever two categories compete with scores less than 1.0
\* apart at the top, as for a blob containing 'pothole' and 'garbage' (3.0
\* each), classify_by_rules reports is_ambiguous true; a blob containing
\* 'pothole' and 'garbage dump' is not such a case: 'dump' hits a second
\* Sanitation rule, Sanitation scores 5.0 against 3.0 and is_ambiguous is false.
C14_CloseScoresAmbiguous ==
    /\ (engine_pc # "input" /\ engine_result.method = "rule_engine"
          /\ CloseCompetitor(engine_result)) => engine_result.is_ambiguous
    /\ (SignalIs("pothole and garbage", <<>>) \/ SignalIs("garbage and pothole", <<>>)) =>
          /\ ScoreOf(engine_result, "Municipal - PWD (Roads)") = 30
          /\ ScoreOf(engine_result, "Municipal - Sanitation") = 30
          /\ engine_result.is_ambiguous
    /\ (SignalIs("pothole and garbage dump", <<>>)
          \/ SignalIs("garbage dump and pothole", <<>>)) =>
          /\ ScoreOf(engine_result, "Municipal - PWD (Roads)") = 30
          /\ ScoreOf(engine_result, "Municipal - Sanitation") = 50
          /\ engine_result.category = "Municipal - Sanitation"
          /\ ~engine_result.is_ambiguous

\* 'pothole' and 'garbage' have been classified together, with Roads winning
\* the tie
C14_TieClassified ==
    /\ SignalIs("pothole and garbage", <<>>)
    /\ engine_result.category = "Municipal - PWD (Roads)"
    /\ engine_result.is_ambiguous

\* C15: the signal with description 'dangling wires near a pole, sparks
\* visible' and hazards ['electrocution risk'] is classified 'Utility - Power
\* (DISCOM)' with is_ambiguous false, and routing that category resolves to
\* UTIL_DISCOM, whose escalation_days is 3.
C15_DanglingWiresEndToEnd ==
    SignalIs("dangling wires near a pole, sparks visible", <<"electrocution risk">>) =>
        /\ engine_result.category = "Utility - Power (DISCOM)"
        /\ ~engine_result.is_ambiguous
        /\ engine_pc = "routed" =>
              /\ engine_routing.authority_id = "UTIL_DISCOM"
              /\ \E i \in 1..Len(AUTHORITIES_DB) :
                    /\ AUTHORITIES_DB[i].id = engine_routing.authority_id
                    /\ AUTHORITIES_DB[i].escalation_days = 3

\* the dangling-wires signal has been classified and routed
C15_DanglingWiresRouted ==
    /\ SignalIs("dangling wires near a pole, sparks visible", <<"electrocution risk">>)
    /\ engine_pc = "routed"
    /\ engine_routing.reason = "exact_match"

\* C16: whenever the combined text contains a negative keyword,
\* classify_by_rules returns category 'Uncategorized', confidence 0.85,
\* is_ambiguous false, method 'rule_engine_non_civic' and an empty score
\* table, whatever civic keywords the text also contains.
C16_NonCivicShortCircuit ==
    ( /\ engine_pc # "input"
      /\ \E text_lower \in {Lower(CombinedText(SignalPayload(signal)))} :
            \E kw \in NON_CIVIC_KEYWORDS : Contains(text_lower, kw) )
    => /\ engine_result.category = "Uncategorized"
       /\ engine_result.confidence = 8500
       /\ ~engine_result.is_ambiguous
       /\ engine_result.method = "rule_engine_non_civic"
       /\ engine_result.scores = <<>>
       /\ ~engine_result.raised

\* a signal with a civic phrase and a negative keyword has been classified
C16_SelfieWithPotholeClassified ==
    /\ SignalIs("pothole", <<"a selfie">>)
    /\ engine_result.method = "rule_engine_non_civic"


-----------------------------------------------------------------------------
(* The job queue *)

\* the steps of the lifecycle of one entry of the result map
LifecycleStep(before, after) ==
    \/ before = "absent" /\ after = "queued"
    \/ before = "queued" /\ after = "processing"
    \/ before = "processing" /\ after \in {"completed", "failed"}

\* C17: for every job id the status stored in the result map moves only along
\* queued, processing, then completed or failed: it never moves backwards,
\* no step is skipped, and a completed or failed entry never changes again.
C17_LifecycleOrder ==
    [][\A j \in JobIds :
          results'[j] # results[j] =>
              LifecycleStep(results[j].status, results'[j].status)]_vars

\* C17 witness: one job has completed and another has failed.
C17_CompletedAndFailed ==
    \E j, k \in JobIds :
        results[j].status = "completed" /\ results[k].status = "failed"

\* the generation step of the job failed: the model call raised, or the image
\* file is missing
GenerationFails(j) == jobs[j] \in {"model_raises", "missing_file"}

\* C18: a job whose generation step fails (the model call raises, or the
\* image file is missing) is never reported completed, and when it has ended
\* its entry is failed and holds the error text.
C18_FailedGenerationEndsFailed ==
    \A j \in JobIds :
        GenerationFails(j) =>
            /\ results[j].status # "completed"
            /\ results[j].status = "failed" => results[j].error # ""

-----------------------------------------------------------------------------
(* Schemas *)

InClosedRange(value, lo, hi) == lo <= value /\ value <= hi

\* C19: a construction rejects a value exactly when it lies outside its
\* declared closed range (lat in -90..90, lon in -180..180, confidence_score
\* in 0..1), and a construction with a rejected value yields no object.
C19_ClosedRangeValidation ==
    /\ schema_call.schema = "GeoLocation" =>
          /\ "lat" \in schema_result.errors
                <=> ~InClosedRange(schema_call.lat, -900000, 900000)
          /\ "lon" \in schema_result.errors
                <=> ~InClosedRange(schema_call.lon, -1800000, 1800000)
    /\ schema_call.schema = "AIMetadata" =>
          "confidence_score" \in schema_result.errors
              <=> ~InClosedRange(schema_call.confidence_score, 0, 10000)
    /\ schema_result.errors # {} => schema_result.obj = NoCall
    /\ schema_result.errors = {} => schema_result.obj = schema_call

\* C19 witness: GeoLocation was built with lat and lon on the upper ends of
\* their ranges.
C19_BoundaryAccepted ==
    /\ schema_call.schema = "GeoLocation"
    /\ schema_call.lat = 900000
    /\ schema_call.lon = 1800000
    /\ schema_result.errors = {}
    /\ schema_result.obj.schema = "GeoLocation"

-----------------------------------------------------------------------------
(* Merge policy *)

\* the reasoning step ran and produced a result in this step
ReasoningRan == pc = "reasoning" /\ reasoning' \in {"parsed", "parse_failed"}

-----------------------------------------------------------------------------
(* Ambiguity gate *)

\* secondary reasoning is enabled by configuration
ReasoningEnabled == settings.reasoning_model # "" /\ ~settings.rule_engine_only

\* C21: the reasoning call is made only when the rule-engine result is
\* ambiguous and secondary reasoning is enabled; otherwise no call is made and
\* the category, confidence and method entering the keyword fallback are
\* exactly the rule engine's.
C21_AmbiguityGate ==
    [][pc = "reasoning" =>
          /\ reasoning' # "skipped" => rule_result.is_ambiguous /\ ReasoningEnabled
          /\ ~(rule_result.is_ambiguous /\ ReasoningEnabled) =>
                /\ reasoning' = "skipped"
                /\ reasoned' = NoReasoned
                /\ pc' = "fallback"
                /\ canonical' = rule_result.category
                /\ model_confidence' = rule_result.confidence
                /\ method' = rule_result.method]_vars

\* C21 witness: an ambiguous rule result went to the keyword fallback without
\* a reasoning call because rule_engine_only is set.
C21_AmbiguousButDisabled ==
    /\ pc = "fallback"
    /\ reasoning = "skipped"
    /\ rule_result.is_ambiguous
    /\ settings.rule_engine_only
    /\ settings.reasoning_model # ""
    /\ canonical = rule_result.category

\* C22: the ambiguity decision that gates the reasoning step uses the
\* configured threshold: a rule result whose gap is at least the gap threshold
\* is ambiguous exactly when its top score is below
\* settings.ambiguity_threshold.
C22_ConfiguredThresholdGates ==
    (/\ pc = "reasoning"
     /\ rule_result.method = "rule_engine"
     /\ ~CloseCompetitor(rule_result)) =>
        (rule_result.is_ambiguous
            <=> BestScore(rule_result) < settings.ambiguity_threshold)

-----------------------------------------------------------------------------
(* Keyword fallback and validity gate *)

\* the rules of the fallback list with a keyword inside the lowercased
\* description
FallbackHits == {i \in 1..Len(KEYWORD_FALLBACK) :
                    AnyIn(Lower(description), KEYWORD_FALLBACK[i].keywords)}

\* C23: the keyword fallback acts only while the category is 'Uncategorized';
\* it takes the category of the first rule of the list with a keyword in the
\* lowercased description, sets method 'keyword_fallback' and caps the
\* confidence at 0.65; otherwise category, confidence and method are unchanged.
C23_KeywordFallback ==
    [][pc = "fallback" =>
          IF canonical = "Uncategorized" /\ FallbackHits # {}
          THEN /\ \E i \in FallbackHits :
                     /\ \A j \in FallbackHits : i <= j
                     /\ canonical' = KEYWORD_FALLBACK[i].category
               /\ method' = "keyword_fallback"
               /\ model_confidence' = IF model_confidence <= 6500
                                      THEN model_confidence ELSE 6500
          ELSE /\ canonical' = canonical
               /\ model_confidence' = model_confidence
               /\ method' = method]_vars

\* C23 witness: a description matching two rules of the list was resolved by
\* the fallback, with the confidence capped.
C23_FallbackResolvedFirstOfTwo ==
    /\ pc = "validity"
    /\ method = "keyword_fallback"
    /\ \E i, j \in FallbackHits : i # j
    /\ model_confidence = 6500

\* the description contains a non-civic keyword
NonCivicDetected == \E kw \in NEGATIVE_KEYWORDS : Contains(Lower(description), kw)

\* C24: in every non-error decision is_valid is true exactly when the final
\* category is not 'Uncategorized' and the description has no non-civic
\* keyword; an invalid decision reports max(confidence / 2, 0.1) and a valid
\* one the confidence unchanged.
C24_ValidityGate ==
    [][pc = "validity" =>
          /\ decision'.department = canonical
          /\ decision'.is_valid <=> (canonical # "Uncategorized" /\ ~NonCivicDetected)
          /\ decision'.is_valid => decision'.confidence = model_confidence
          /\ ~decision'.is_valid =>
                decision'.confidence = (IF model_confidence \div 2 >= 1000
                                        THEN model_confidence \div 2 ELSE 1000)]_vars

\* C24 witness: a decision with a civic category was returned invalid because
\* of a non-civic keyword, with its confidence halved.
C24_NonCivicResolvedInvalid ==
    /\ pc = "done"
    /\ ~decision.has_error
    /\ decision.method # "error"
    /\ decision.department \in CanonicalSet \ {"Uncategorized"}
    /\ ~decision.is_valid
    /\ decision.confidence = 3250

-----------------------------------------------------------------------------
(* Rule scoring and the decision from the score table *)

\* the lowercased blob classify_by_rules built for the signal
SignalText == Lower(CombinedText(SignalPayload(signal)))

\* the rules of a category with at least one keyword inside the text
MatchedRules(text_lower, rules) ==
    {r \in 1..Len(rules) : \E kw \in rules[r].keywords : Contains(text_lower, kw)}

RECURSIVE WeightOf(_, _)
\* the sum of the weights of the rules in the set
WeightOf(rules, matched) ==
    IF matched = {} THEN 0
    ELSE LET r == CHOOSE x \in matched : TRUE
         IN  rules[r].weight + WeightOf(rules, matched \ {r})

\* C25: scoring is additive and match-count-insensitive: every category's
\* score is the sum of the weights of those of its rules with at least one
\* keyword contained in the lowercased text, each rule counted once, and each
\* category is scored by its own rules only.
C25_AdditiveScoring ==
    (engine_pc = "classified" /\ engine_result.method # "rule_engine_non_civic") =>
        \E text_lower \in {SignalText} :
            /\ Len(engine_result.scores) = Len(CATEGORY_RULES)
            /\ \A c \in 1..Len(CATEGORY_RULES) :
                  engine_result.scores[c] =
                      WeightOf(CATEGORY_RULES[c].rules,
                               MatchedRules(text_lower, CATEGORY_RULES[c].rules))

\* C25 witness: a description naming the pothole twice was scored, and the
\* roads category got the weight of the pothole rule once.
C25_PotholeTwiceScoredOnce ==
    /\ engine_pc = "classified"
    /\ signal.description = "pothole and pothole"
    /\ ScoreOf(engine_result, "Municipal - PWD (Roads)") = 30

\* the index of the winner in a score table: the highest score, and among
\* equal highest scores the category declared first
Winner(scores) ==
    CHOOSE w \in 1..Len(scores) :
        /\ \A j \in 1..Len(scores) : scores[j] <= scores[w]
        /\ \A j \in 1..(w - 1) : scores[j] # scores[w]

\* the best score among the categories other than the winner
SecondScore(scores) ==
    CHOOSE v \in {scores[j] : j \in 1..Len(scores) \ {Winner(scores)}} :
        \A j \in 1..Len(scores) \ {Winner(scores)} : scores[j] <= v

\* conf (ten-thousandths) is min(top / 6, 1), times 0.7 when reduced, rounded
\* to 3 decimals; top in tenths
IsRoundedConfidence(conf, top, reduced) ==
    LET capped == IF top >= 60 THEN 60 ELSE top
        num    == IF reduced THEN 7 * capped ELSE 10 * capped
        diff   == 6 * conf - 100 * num
    IN  /\ conf % 10 = 0
        /\ -30 <= diff /\ diff <= 30

\* C26: for every text without a negative keyword classify_by_rules decides
\* from the score table: with top score <= 0, 'Uncategorized', confidence
\* 0.1, ambiguous, method 'rule_engine_no_match'; otherwise the first
\* highest-scoring category, is_ambiguous = (top < ambiguity threshold) or
\* (top - runner-up < gap threshold), confidence min(top / 6, 1), times 0.7
\* exactly when the gap is below the gap threshold, rounded to 3 decimals,
\* method 'rule_engine'.
C26_DecisionFromScores ==
    (/\ engine_pc = "classified"
     /\ \E text_lower \in {SignalText} : ~AnyIn(text_lower, NON_CIVIC_KEYWORDS)) =>
        \E scores \in {engine_result.scores} :
        \E top \in {scores[Winner(scores)]} :
        \E gap \in {top - SecondScore(scores)} :
            IF top <= 0
            THEN /\ engine_result.category = "Uncategorized"
                 /\ engine_result.confidence = 1000
                 /\ engine_result.is_ambiguous
                 /\ engine_result.method = "rule_engine_no_match"
            ELSE /\ engine_result.category = CATEGORY_RULES[Winner(scores)].category
                 /\ engine_result.is_ambiguous <=> (top < 20 \/ gap < 10)
                 /\ IsRoundedConfidence(engine_result.confidence, top, gap < 10)
                 /\ engine_result.method = "rule_engine"

\* C26 witness: a text whose top score is at least the ambiguity threshold
\* but whose runner-up is closer than the gap threshold was classified
\* ambiguous with the reduced confidence.
C26_SmallGapReduced ==
    /\ engine_pc = "classified"
    /\ engine_result.method = "rule_engine"
    /\ BestScore(engine_result) >= 20
    /\ CloseCompetitor(engine_result)
    /\ engine_result.is_ambiguous
    /\ engine_result.confidence = 3500

-----------------------------------------------------------------------------
(* The worker pool *)

\* the jobs whose entry in the result map says 'processing'
Processing == {j \in JobIds : results[j].status = "processing"}

\* C27: the queue is served by a bounded pool in FIFO order: at every moment
\* at most llm_queue_workers jobs have status 'processing', jobs enter
\* 'processing' in the order they were enqueued, and every job is taken by one
\* worker only.
C27_BoundedFifoPool ==
    /\ Cardinality(Processing) <= NumWorkers
    /\ \A i \in 1..Len(taken) : taken[i] = i
    /\ \A w, v \in WorkerIds :
          (w # v /\ workers[w].state = "running" /\ workers[v].state = "running")
              => workers[w].job # workers[v].job

-----------------------------------------------------------------------------
(* Escalation *)

\* the positions of status_history that record an escalation
Escalations == {k \in 1..Len(complaint.status_history) :
                   complaint.status_history[k].note = "Escalated"}

\* C28: escalation always terminates: every successful escalate request moves
\* authority_id to a different authority that exists in the registry and that
\* the complaint has not left before, so only finitely many requests succeed
\* before every further one fails with 'No escalation target available'.
C28_EscalationTerminates ==
    \A k \in Escalations :
        LET item == complaint.status_history[k]
        IN  /\ item.to # item.from
            /\ item.to \in AuthorityIds
            /\ \A l \in Escalations : l < k => complaint.status_history[l].from # item.to

\* request r applies its update in this step
Applies(r) == req[r].pc = "update" /\ req'[r].pc = "done"

\* C29: under any interleaving of concurrent escalate requests no escalation
\* is lost or duplicated: each successful request moves authority_id one level
\* up from the authority that is current when its update is applied, and the
\* entry 'Escalated from X to Y' it appends has X equal to the authority_id
\* stored immediately before the update and Y equal to the one stored
\* immediately after it.
C29_EscalationsSerialize ==
    [][\A r \in Requests :
          Applies(r) =>
              LET item == complaint'.status_history[Len(complaint'.status_history)]
              IN  /\ item.from = complaint.authority_id
                  /\ item.to = complaint'.authority_id
                  /\ complaint'.authority_id = StaticParent(complaint.authority_id)]_vars

-----------------------------------------------------------------------------
(* Progress of the job queue *)

\* start() has been called and its workers exist
Started == \E w \in WorkerIds : workers[w].state # "none"

\* C30: while the service is running (workers started, stop() not called,
\* workers scheduled fairly, every generation call returning or raising)
\* every job accepted by enqueue eventually reaches 'completed' or 'failed';
\* none stays 'queued' or 'processing' forever, also with more jobs than
\* workers.
C30_EveryJobSettles ==
    \A j \in JobIds :
        (Started /\ results[j].status \in {"queued", "processing"})
            ~> (results[j].status \in {"completed", "failed"})

\* C30 witness: more jobs than workers were enqueued and every one of them has
\* reached 'completed' or 'failed'.
C30_AllJobsSettled ==
    /\ MaxJobs > NumWorkers
    /\ \A j \in JobIds : results[j].status \in {"completed", "failed"}

=========================================================================
